---- MODULE Spec2Model ----
(***************************************************************************)
(* Model of telekey (Sofiman/telekey): a server that reads terminal keys   *)
(* and streams them as KeyEvent packets, a client that receives and        *)
(* injects them, the token handshake (plain and secure), the framed        *)
(* transports and the latency probe.                                       *)
(*                                                                         *)
(* Everything on the wire is a sequence of integers ("bytes").  An AEAD    *)
(* ciphertext is abstracted as a header naming the key it authenticates    *)
(* under, followed by the plaintext.                                       *)
(***************************************************************************)
EXTENDS Integers, Sequences, FiniteSets, TLC

\* ------------------------------------------------------------------------
\* Bounds of the model
\* ------------------------------------------------------------------------
MaxSessions == 2
MaxReads == 22
LaterReads == 3
VariedReads == 1
MaxReadErrs == 1
SockBuf == 2
MaxTamper == 1
TamperWindow == 5
MaxPeriod == 2
MaxFrames == 3
MaxFeed == 3
MaxWire == 21

\* ------------------------------------------------------------------------
\* Program constants
\* ------------------------------------------------------------------------
HistoryCap == 20
KeyLen == 32
PingBodyLen == 8
VERSION_NUM == 1
UnknownKindByte == 255

\* ------------------------------------------------------------------------
\* Small helpers on byte strings
\* ------------------------------------------------------------------------
Last(s) == s[Len(s)]
Front(s) == SubSeq(s, 1, Len(s) - 1)
Drop(s, n) == SubSeq(s, n + 1, Len(s))
Take(s, n) == SubSeq(s, 1, n)
Rep(b, n) == [i \in 1..n |-> b]

Pow256(n) == IF n = 0 THEN 1
             ELSE IF n = 1 THEN 256
             ELSE IF n = 2 THEN 65536
             ELSE 16777216

\* u32::to_be_bytes / u32::from_be_bytes
U32BE(n) == [i \in 1..4 |-> (n \div Pow256(4 - i)) % 256]
U32FromBE(b) == b[1] * 16777216 + b[2] * 65536 + b[3] * 256 + b[4]

\* i64::to_be_bytes, for the non-negative values of the model clock (the four
\* high bytes are zero)
I64BE(n) == Rep(0, 4) \o U32BE(n)
\* i64::from_be_bytes of 8 bytes, as the high and the low 32 bits
I64FromBE(b) == [hi |-> U32FromBE(SubSeq(b, 1, 4)), lo |-> U32FromBE(SubSeq(b, 5, 8))]

\* ------------------------------------------------------------------------
\* TelekeyPacketKind and its u8 conversions
\* ------------------------------------------------------------------------
KindFromU8(id) == IF id = 0 THEN "Handshake"
                  ELSE IF id = 1 THEN "KeyEvent"
                  ELSE IF id = 2 THEN "Ping"
                  ELSE "Unknown"

KindToU8Swapped(kind) == IF kind = "Handshake" THEN 0
                         ELSE IF kind = "KeyEvent" THEN 2
                         ELSE IF kind = "Ping" THEN 1
                         ELSE UnknownKindByte

KindToU8(kind) == IF kind = "Handshake" THEN 0
                  ELSE IF kind = "KeyEvent" THEN 1
                  ELSE IF kind = "Ping" THEN 2
                  ELSE UnknownKindByte

\* TelekeyPacket::raw
RawPacket(kind, payload) == [kind |-> kind, payload |-> payload]

\* ------------------------------------------------------------------------
\* KeyKind wire values
\* ------------------------------------------------------------------------
KeyKindNames == {"UNKNOWN", "BACKSPACE", "ENTER", "LEFT", "RIGHT", "UP",
                 "DOWN", "HOME", "END", "PAGEUP", "PAGEDOWN", "TAB",
                 "DELETE", "INSERT", "FUNCTION", "CHAR", "ESC", "SHIFT",
                 "META"}

KeyKindValue(k) ==
    CASE k = "UNKNOWN" -> 0 [] k = "BACKSPACE" -> 1 [] k = "ENTER" -> 2
      [] k = "LEFT" -> 3 [] k = "RIGHT" -> 4 [] k = "UP" -> 5
      [] k = "DOWN" -> 6 [] k = "HOME" -> 7 [] k = "END" -> 8
      [] k = "PAGEUP" -> 9 [] k = "PAGEDOWN" -> 10 [] k = "TAB" -> 11
      [] k = "DELETE" -> 13 [] k = "INSERT" -> 14 [] k = "FUNCTION" -> 15
      [] k = "CHAR" -> 16 [] k = "ESC" -> 17 [] k = "SHIFT" -> 18
      [] k = "META" -> 19

\* impl From<i32> for KeyKind
KeyKindFromI32Dense(i) ==
    LET j == IF i >= 12 THEN i + 1 ELSE i
    IN  IF \E k \in KeyKindNames : KeyKindValue(k) = j
        THEN CHOOSE k \in KeyKindNames : KeyKindValue(k) = j
        ELSE "UNKNOWN"

KeyKindFromI32(i) ==
    IF \E k \in KeyKindNames : KeyKindValue(k) = i
    THEN CHOOSE k \in KeyKindNames : KeyKindValue(k) = i
    ELSE "UNKNOWN"

\* ------------------------------------------------------------------------
\* Protobuf wire format (quick_protobuf), one model byte per byte
\* ------------------------------------------------------------------------
RECURSIVE Varint(_)
Varint(n) == IF n < 128 THEN <<n>> ELSE <<128 + (n % 128)>> \o Varint(n \div 128)

\* result of reading a varint at the head of b: [ok, val, rest]
RECURSIVE ReadVarint(_)
ReadVarint(b) ==
    IF Len(b) = 0 THEN [ok |-> FALSE, val |-> 0, rest |-> <<>>]
    ELSE IF b[1] < 128 THEN [ok |-> TRUE, val |-> b[1], rest |-> Drop(b, 1)]
    ELSE LET r == ReadVarint(Drop(b, 1))
         IN  [ok |-> r.ok, val |-> (b[1] % 128) + 128 * r.val, rest |-> r.rest]

VarintField(tag, v) == <<tag>> \o Varint(v)
Fixed32Field(tag, v) == <<tag>> \o [i \in 1..4 |-> (v \div Pow256(i - 1)) % 256]
BytesField(tag, bs) == <<tag>> \o Varint(Len(bs)) \o bs
Fixed32FromLE(b) == b[1] + b[2] * 256 + b[3] * 65536 + b[4] * 16777216

\* A decoded field: tag, integer value (varint, fixed32) and bytes
\* (length-delimited).  ReadFields returns [ok, fields].
RECURSIVE ReadFields(_)
ReadFields(b) ==
    IF Len(b) = 0 THEN [ok |-> TRUE, fields |-> <<>>]
    ELSE
      LET t == ReadVarint(b)
          wt == t.val % 8
      IN
      IF ~t.ok THEN [ok |-> FALSE, fields |-> <<>>]
      ELSE IF wt = 0 THEN
        LET v == ReadVarint(t.rest)
            r == ReadFields(v.rest)
        IN  IF ~v.ok THEN [ok |-> FALSE, fields |-> <<>>]
            ELSE [ok |-> r.ok,
                  fields |-> <<[tag |-> t.val, int |-> v.val, bytes |-> <<>>]>> \o r.fields]
      ELSE IF wt = 5 THEN
        IF Len(t.rest) < 4 THEN [ok |-> FALSE, fields |-> <<>>]
        ELSE LET r == ReadFields(Drop(t.rest, 4))
             IN  [ok |-> r.ok,
                  fields |-> <<[tag |-> t.val, int |-> Fixed32FromLE(Take(t.rest, 4)),
                                bytes |-> <<>>]>> \o r.fields]
      ELSE IF wt = 1 THEN
        IF Len(t.rest) < 8 THEN [ok |-> FALSE, fields |-> <<>>]
        ELSE LET r == ReadFields(Drop(t.rest, 8))
             IN  [ok |-> r.ok,
                  fields |-> <<[tag |-> t.val, int |-> 0, bytes |-> Take(t.rest, 8)]>> \o r.fields]
      ELSE IF wt = 2 THEN
        LET n == ReadVarint(t.rest)
        IN  IF ~n.ok \/ Len(n.rest) < n.val THEN [ok |-> FALSE, fields |-> <<>>]
            ELSE LET r == ReadFields(Drop(n.rest, n.val))
                 IN  [ok |-> r.ok,
                      fields |-> <<[tag |-> t.val, int |-> 0, bytes |-> Take(n.rest, n.val)]>>
                                 \o r.fields]
      ELSE [ok |-> FALSE, fields |-> <<>>]

\* the value of the last field with the given tag, or the default
RECURSIVE FieldInt(_, _, _)
FieldInt(fields, tag, default) ==
    IF Len(fields) = 0 THEN default
    ELSE IF Last(fields).tag = tag THEN Last(fields).int
    ELSE FieldInt(Front(fields), tag, default)

RECURSIVE FieldBytes(_, _)
FieldBytes(fields, tag) ==
    IF Len(fields) = 0 THEN <<>>
    ELSE IF Last(fields).tag = tag THEN Last(fields).bytes
    ELSE FieldBytes(Front(fields), tag)

\* Writer::write_message: varint length, then the message's fields
WriteMessage(body) == Varint(Len(body)) \o body

\* deserialize_from_slice: varint length, then the fields inside that length
ReadMessage(b) ==
    LET n == ReadVarint(b)
    IN  IF ~n.ok \/ Len(n.rest) < n.val THEN [ok |-> FALSE, fields |-> <<>>]
        ELSE ReadFields(Take(n.rest, n.val))

\* HandshakeRequest
HandshakeRequestBytes(m) ==
    (IF m.hostname = <<>> THEN <<>> ELSE BytesField(10, m.hostname))
    \o (IF m.version = 0 THEN <<>> ELSE Fixed32Field(21, m.version))
    \o (IF m.token = <<>> THEN <<>> ELSE BytesField(26, m.token))
    \o (IF m.pkey = <<>> THEN <<>> ELSE BytesField(34, m.pkey))

DecodeHandshakeRequest(b) ==
    LET r == ReadMessage(b)
    IN  [ok |-> r.ok,
         msg |-> [hostname |-> FieldBytes(r.fields, 10),
                  version |-> FieldInt(r.fields, 21, 0),
                  token |-> FieldBytes(r.fields, 26),
                  pkey |-> FieldBytes(r.fields, 34)]]

\* HandshakeResponse
HandshakeResponseBytes(m) ==
    (IF m.hostname = <<>> THEN <<>> ELSE BytesField(10, m.hostname))
    \o (IF m.version = 0 THEN <<>> ELSE Fixed32Field(21, m.version))
    \o (IF m.pkey = <<>> THEN <<>> ELSE BytesField(26, m.pkey))

DecodeHandshakeResponse(b) ==
    LET r == ReadMessage(b)
    IN  [ok |-> r.ok,
         msg |-> [hostname |-> FieldBytes(r.fields, 10),
                  version |-> FieldInt(r.fields, 21, 0),
                  pkey |-> FieldBytes(r.fields, 26)]]

\* KeyEvent
KeyEventBytes(e) ==
    (IF e.kind = "UNKNOWN" THEN <<>> ELSE VarintField(8, KeyKindValue(e.kind)))
    \o (IF e.key = 0 THEN <<>> ELSE VarintField(16, e.key))
    \o (IF e.modifiers = 0 THEN <<>> ELSE VarintField(24, e.modifiers))

DecodeKeyEvent(b) ==
    LET r == ReadMessage(b)
    IN  [ok |-> r.ok,
         msg |-> [kind |-> KeyKindFromI32(FieldInt(r.fields, 8, 0)),
                  key |-> FieldInt(r.fields, 16, 0),
                  modifiers |-> FieldInt(r.fields, 24, 0)]]

\* TelekeyPacket::new
NewPacket(kind, body) == [kind |-> kind, payload |-> WriteMessage(body)]

\* ------------------------------------------------------------------------
\* Keys and authenticated encryption (orion), abstracted
\* ------------------------------------------------------------------------
\* A key is KeyLen bytes; the model's keys repeat one identifying byte.
KeyBytes(id) == Rep(id, KeyLen)
KeyId(key) == IF Len(key) = 0 THEN -1 ELSE key[1]

\* aead::seal: a header that stands for nonce and tag and names the key the
\* ciphertext authenticates under, then the encrypted bytes
Seal(key, pt) == <<256, KeyId(key), 1>> \o pt

\* aead::open: fails on a blob with no room for a plaintext byte, on another
\* key and on a modified ciphertext
Open(key, ct) ==
    IF Len(ct) > 3 /\ ct[1] = 256 /\ ct[2] = KeyId(key) /\ ct[3] = 1
    THEN [ok |-> TRUE, pt |-> Drop(ct, 3)]
    ELSE [ok |-> FALSE, pt |-> <<>>]

\* the session secret of the n-th accepted connection (SecretKey::generate)
SessionSecret(n) == KeyBytes(n)
\* a well-formed token that is not the secret of any session
WrongSecret == KeyBytes(0)

\* ephemeral key pairs (EphemeralServerSession::new, EphemeralClientSession::new)
ServerEphemeral(n) == 10 + n
ClientEphemeral(n) == 20 + n
PublicKeyBytes(eph) == KeyBytes(eph)
\* X25519 shared secret of a private key and the peer's public key
SharedSecret(priv, pub) == priv * KeyId(pub)

\* SessionKeys: rx = receiving(), tx = transport()
EstablishWithClient(priv, clientPub) ==
    [rx |-> KeyBytes(2 * SharedSecret(priv, clientPub) + 1),
     tx |-> KeyBytes(2 * SharedSecret(priv, clientPub))]

EstablishWithServerSame(priv, serverPub) ==
    [rx |-> KeyBytes(2 * SharedSecret(priv, serverPub) + 1),
     tx |-> KeyBytes(2 * SharedSecret(priv, serverPub))]

EstablishWithServer(priv, serverPub) ==
    [rx |-> KeyBytes(2 * SharedSecret(priv, serverPub)),
     tx |-> KeyBytes(2 * SharedSecret(priv, serverPub) + 1)]

\* ------------------------------------------------------------------------
\* Transports.  A frame is the bytes one send_packet call writes.
\* ------------------------------------------------------------------------
NoKeys == [rx |-> <<>>, tx |-> <<>>]
TcpTransport == [kind |-> "tcp", keys |-> NoKeys]
KexTransport(keys) == [kind |-> "kex", keys |-> keys]

NoPacket == RawPacket("Unknown", <<>>)
RecvErr(e) == [status |-> "err", err |-> e, pkt |-> NoPacket]
RecvPanic(e) == [status |-> "panic", err |-> e, pkt |-> NoPacket]
RecvOk(p) == [status |-> "ok", err |-> "", pkt |-> p]

TcpSendPacketBodyLen(p) ==
    LET payload == p.payload \o <<KindToU8(p.kind)>>
    IN  U32BE(Len(p.payload)) \o payload

\* TcpTransport::send_packet
TcpSendPacket(p) ==
    LET payload == p.payload \o <<KindToU8(p.kind)>>
    IN  U32BE(Len(payload)) \o payload

\* io::Error::new(io::ErrorKind::InvalidInput, "Zero length packet received")
ZeroLengthError == "InvalidInput: Zero length packet received"

\* the number of bytes recv_packet (of either transport) takes from the
\* stream: the header, then nothing more for a zero length, else len bytes
\* (all that is left when the stream ends before)
FrameLength(stream) ==
    IF Len(stream) < 4 THEN Len(stream)
    ELSE LET len == U32FromBE(Take(stream, 4))
         IN  IF len = 0 THEN 4
             ELSE IF Len(stream) < 4 + len THEN Len(stream)
             ELSE 4 + len

TcpRecvPacketNoZeroCheck(frame) ==
    IF Len(frame) < 4 THEN RecvErr("UnexpectedEof")
    ELSE LET len == U32FromBE(Take(frame, 4))
         IN  IF len = 0 THEN RecvPanic("called Option::unwrap() on a None value")
             ELSE IF Len(frame) < 4 + len THEN RecvErr("UnexpectedEof")
             ELSE LET buf == SubSeq(frame, 5, 4 + len)
                  IN  RecvOk(RawPacket(KindFromU8(Last(buf)), Front(buf)))

\* TcpTransport::recv_packet on the bytes at the head of the stream
TcpRecvPacket(frame) ==
    IF Len(frame) < 4 THEN RecvErr("UnexpectedEof")
    ELSE LET len == U32FromBE(Take(frame, 4))
         IN  IF len = 0 THEN RecvErr(ZeroLengthError)
             ELSE IF Len(frame) < 4 + len THEN RecvErr("UnexpectedEof")
             ELSE LET buf == SubSeq(frame, 5, 4 + len)
                  IN  RecvOk(RawPacket(KindFromU8(Last(buf)), Front(buf)))

KexSendPacketPlain(keys, p) ==
    TcpSendPacket(p)

\* KexTransport::send_packet
KexSendPacket(keys, p) ==
    LET msg == Seal(keys.tx, p.payload \o <<KindToU8(p.kind)>>)
    IN  U32BE(Len(msg)) \o msg

\* the panic message of unwrap() on the error of aead::open
CryptoPanic == "called Result::unwrap() on an Err value: UnknownCryptoError"

\* KexTransport::recv_packet: the result of aead::open is unwrapped
KexRecvPacket(keys, frame) ==
    IF Len(frame) < 4 THEN RecvErr("UnexpectedEof")
    ELSE LET len == U32FromBE(Take(frame, 4))
         IN  IF len = 0 THEN RecvErr(ZeroLengthError)
             ELSE IF Len(frame) < 4 + len THEN RecvErr("UnexpectedEof")
             ELSE LET opened == Open(keys.rx, SubSeq(frame, 5, 4 + len))
                  IN  IF ~opened.ok
                      THEN RecvPanic(CryptoPanic)
                      ELSE RecvOk(RawPacket(KindFromU8(Last(opened.pt)),
                                            Front(opened.pt)))

\* TelekeyTransport::send_packet / recv_packet, dispatched on the transport
SendPacket(tr, p) ==
    IF tr.kind = "kex" THEN KexSendPacket(tr.keys, p) ELSE TcpSendPacket(p)

RecvPacket(tr, frame) ==
    IF tr.kind = "kex" THEN KexRecvPacket(tr.keys, frame) ELSE TcpRecvPacket(frame)

\* recv_packet on a socket: blocks while the stream is empty and the peer is
\* open (the callers' guards), fails when the peer closed an empty stream
RecvFrom(tr, chan, peerClosed) ==
    IF Len(chan) = 0 THEN RecvErr("UnexpectedEof")
    ELSE RecvPacket(tr, Head(chan))

CanRecv(chan, peerClosed) == Len(chan) > 0 \/ peerClosed

\* the outcomes of writing a frame: delivered to an open peer, refused
\* (broken pipe) by a peer that closed
WriteOutcomes(chan, frame, peerClosed) ==
    IF peerClosed
    THEN {[ok |-> FALSE, chan |-> chan]}
    ELSE {[ok |-> TRUE, chan |-> Append(chan, frame)]}

\* what a network attacker can turn an in-flight frame into by changing one
\* byte after the length prefix
\* the plain frame of a Ping with an empty body, put in place of a Ping that
\* has one
ShortPingFrame == <<0, 0, 0, 1, 2>>

\* where a sealed blob starts inside a plain frame (0: the frame has none)
SealPos(frame) ==
    LET at == {i \in 6..(Len(frame) - 2) : frame[i] = 256}
    IN  IF at = {} THEN 0 ELSE CHOOSE i \in at : \A j \in at : i <= j

TamperedFrames(frame) ==
    IF Len(frame) >= 7 /\ frame[5] = 256
    THEN {[frame EXCEPT ![7] = 0]}
    ELSE IF Len(frame) >= 5
    THEN {[frame EXCEPT ![5] = 127], [frame EXCEPT ![Len(frame)] = 99]}
         \cup (IF Last(frame) # 0 THEN {[frame EXCEPT ![Len(frame)] = 0]} ELSE {})
         \cup (IF SealPos(frame) > 0
               THEN {[frame EXCEPT ![SealPos(frame) + 2] = 0]} ELSE {})
         \cup (IF Len(frame) > 5 /\ Last(frame) = 2 THEN {ShortPingFrame} ELSE {})
    ELSE {}

\* ------------------------------------------------------------------------
\* Terminal keys, KeyEvent conversions
\* ------------------------------------------------------------------------
\* console::Key values the terminal can deliver; ch is the char of Char(x)
TermKey(name, ch) == [name |-> name, ch |-> ch]

\* impl From<console::Key> for KeyEvent
KeyEventFromKey(key) ==
    LET n == key.name
        ev(kind, k) == [kind |-> kind, key |-> k, modifiers |-> 0]
    IN  CASE n = "Enter" -> ev("ENTER", 0)
          [] n = "ArrowUp" -> ev("UP", 0)
          [] n = "ArrowDown" -> ev("DOWN", 0)
          [] n = "ArrowLeft" -> ev("LEFT", 0)
          [] n = "ArrowRight" -> ev("RIGHT", 0)
          [] n = "Escape" -> ev("ESC", 0)
          [] n = "Backspace" -> ev("BACKSPACE", 0)
          [] n = "Home" -> ev("HOME", 0)
          [] n = "End" -> ev("END", 0)
          [] n = "Tab" -> ev("TAB", 0)
          [] n = "Del" -> ev("DELETE", 0)
          [] n = "Insert" -> ev("INSERT", 0)
          [] n = "PageUp" -> ev("PAGEUP", 0)
          [] n = "PageDown" -> ev("PAGEDOWN", 0)
          [] n = "Shift" -> ev("SHIFT", 0)
          [] n = "Char" -> ev("CHAR", key.ch)
          [] OTHER -> ev("UNKNOWN", 0)

\* impl From<KeyEvent> for TelekeyPacket
KeyEventPacket(e) == NewPacket("KeyEvent", KeyEventBytes(e))

\* char::from_u32(x).is_some()
IsChar(x) == x >= 0 /\ x <= 1114111 /\ ~(x >= 55296 /\ x <= 57343)

\* impl From<&KeyEvent> for Result<enigo::Key, String>:
\* "ok" with the key, "err" (no mapping) or "panic" (unwrap of from_u32)
EnigoKey(e) ==
    IF e.kind = "CHAR"
    THEN IF IsChar(e.key) THEN [status |-> "ok", key |-> <<"Layout", e.key>>]
         ELSE [status |-> "panic", key |-> <<"none", 0>>]
    ELSE IF e.kind \in {"ENTER", "UP", "DOWN", "LEFT", "RIGHT", "ESC",
                        "BACKSPACE", "HOME", "END", "TAB", "DELETE",
                        "PAGEUP", "PAGEDOWN", "SHIFT", "META"}
    THEN [status |-> "ok", key |-> <<e.kind, 0>>]
    ELSE [status |-> "err", key |-> <<"none", 0>>]

\* impl Display for KeyEvent: the glyph, as <<text, number>>
DisplayKeyEvent(e) ==
    LET k == e.kind
    IN  CASE k = "ENTER" -> [status |-> "ok", glyph |-> <<"\\n", 0>>]
          [] k = "UP" -> [status |-> "ok", glyph |-> <<"[A^]", 0>>]
          [] k = "DOWN" -> [status |-> "ok", glyph |-> <<"[Av]", 0>>]
          [] k = "LEFT" -> [status |-> "ok", glyph |-> <<"[A<]", 0>>]
          [] k = "RIGHT" -> [status |-> "ok", glyph |-> <<"[A>]", 0>>]
          [] k = "BACKSPACE" -> [status |-> "ok", glyph |-> <<"[BACKSPACE]", 0>>]
          [] k = "INSERT" -> [status |-> "ok", glyph |-> <<"[INSERT]", 0>>]
          [] k = "CHAR" -> IF IsChar(e.key)
                           THEN [status |-> "ok", glyph |-> <<"char", e.key>>]
                           ELSE [status |-> "panic", glyph |-> <<"", 0>>]
          [] k = "TAB" -> [status |-> "ok", glyph |-> <<"\\t", 0>>]
          [] k = "HOME" -> [status |-> "ok", glyph |-> <<"[HOM]", 0>>]
          [] k = "ESC" -> [status |-> "ok", glyph |-> <<"[ESC]", 0>>]
          [] k = "DELETE" -> [status |-> "ok", glyph |-> <<"[DEL]", 0>>]
          [] k = "PAGEUP" -> [status |-> "ok", glyph |-> <<"[P^]", 0>>]
          [] k = "PAGEDOWN" -> [status |-> "ok", glyph |-> <<"[Pv]", 0>>]
          [] k = "END" -> [status |-> "ok", glyph |-> <<"[END]", 0>>]
          [] k = "FUNCTION" -> [status |-> "ok", glyph |-> <<"[F]", e.key>>]
          [] k = "SHIFT" -> [status |-> "ok", glyph |-> <<"[SHIFT]", 0>>]
          [] k = "META" -> [status |-> "ok", glyph |-> <<"[WIN|CMD]", 0>>]
          [] OTHER -> [status |-> "ok", glyph |-> <<"[?]", 0>>]

\* ------------------------------------------------------------------------
\* Inputs of the model
\* ------------------------------------------------------------------------
\* the keys the operator may press
Keys == {TermKey("Enter", 0), TermKey("Char", 97), TermKey("Insert", 0)}
\* The first key of a session, the wake key, is the letter a; the operator
\* then presses VariedReads keys of their choice and after those the letters
\* b, c, d in turn, so that the keys of a long run stay distinguishable;
\* read_key fails only among the first VariedReads calls.
KeyChoices(n) == IF n = 0 THEN {TermKey("Char", 97)}
                 ELSE IF n <= VariedReads THEN Keys
                 ELSE {TermKey("Char", 98 + (n % 3))}

\* ------------------------------------------------------------------------
\* The token: base64 text, a character being its 6-bit value, 64 for the
\* padding '=' and 65 for a character outside the alphabet
\* ------------------------------------------------------------------------
Base64Pad == 64

\* base64::encode
RECURSIVE Base64Encode(_)
Base64Encode(b) ==
    IF Len(b) = 0 THEN <<>>
    ELSE IF Len(b) = 1
    THEN <<b[1] \div 4, (b[1] % 4) * 16, Base64Pad, Base64Pad>>
    ELSE IF Len(b) = 2
    THEN <<b[1] \div 4, (b[1] % 4) * 16 + b[2] \div 16, (b[2] % 16) * 4, Base64Pad>>
    ELSE <<b[1] \div 4, (b[1] % 4) * 16 + b[2] \div 16,
           (b[2] % 16) * 4 + b[3] \div 64, b[3] % 64>> \o Base64Encode(Drop(b, 3))

\* base64::decode of padded text: groups of four characters, padding in the
\* last group only, no character outside the alphabet
RECURSIVE Base64Decode(_)
Base64Decode(c) ==
    LET bad == [ok |-> FALSE, bytes |-> <<>>]
        b1 == c[1] * 4 + c[2] \div 16
        b2 == (c[2] % 16) * 16 + c[3] \div 4
        b3 == (c[3] % 4) * 64 + c[4]
    IN  IF Len(c) = 0 THEN [ok |-> TRUE, bytes |-> <<>>]
        ELSE IF Len(c) < 4 THEN bad
        ELSE IF c[1] >= 64 \/ c[2] >= 64 THEN bad
        ELSE IF c[3] = Base64Pad
        THEN IF Len(c) = 4 /\ c[4] = Base64Pad /\ c[2] % 16 = 0
             THEN [ok |-> TRUE, bytes |-> <<b1>>] ELSE bad
        ELSE IF c[3] > 64 THEN bad
        ELSE IF c[4] = Base64Pad
        THEN IF Len(c) = 4 /\ c[3] % 4 = 0
             THEN [ok |-> TRUE, bytes |-> <<b1, b2>>] ELSE bad
        ELSE IF c[4] > 64 THEN bad
        ELSE LET r == Base64Decode(Drop(c, 4))
             IN  IF r.ok THEN [ok |-> TRUE, bytes |-> <<b1, b2, b3>> \o r.bytes]
                 ELSE bad

\* connect_to: `inp.len() >= 46`
TokenMaxLen == 46

\* connect_to: from the typed line to the secret key
ParseTokenNoSize(inp) ==
    IF Len(inp) >= TokenMaxLen THEN [ok |-> FALSE, err |-> "Invalid token", key |-> <<>>]
    ELSE IF ~Base64Decode(inp).ok
    THEN [ok |-> FALSE, err |-> "Failed to parse token", key |-> <<>>]
    ELSE [ok |-> TRUE, err |-> "", key |-> Base64Decode(inp).bytes]

ParseToken(inp) ==
    IF Len(inp) >= TokenMaxLen THEN [ok |-> FALSE, err |-> "Invalid token", key |-> <<>>]
    ELSE IF ~Base64Decode(inp).ok
    THEN [ok |-> FALSE, err |-> "Failed to parse token", key |-> <<>>]
    ELSE IF Len(Base64Decode(inp).bytes) # KeyLen
    THEN [ok |-> FALSE, err |-> "Received an incorrectly sized key", key |-> <<>>]
    ELSE [ok |-> TRUE, err |-> "", key |-> Base64Decode(inp).bytes]

\* what the operator types at the client's token prompt: the token the
\* server displays, the token of another secret, the base64 text of 31, 33
\* and 34 bytes, the token with a character outside the alphabet, nothing
TokenInputs(secret) ==
    {Base64Encode(secret), Base64Encode(WrongSecret),
     Base64Encode(Rep(7, KeyLen - 1)), Base64Encode(Rep(7, KeyLen + 1)),
     Base64Encode(Rep(7, KeyLen + 2)),
     [Base64Encode(secret) EXCEPT ![1] = 65], <<>>}

\* Option<usize> refresh_latency
NoRefresh == [some |-> FALSE, n |-> 0]
RefreshChoices == {NoRefresh} \cup {[some |-> TRUE, n |-> k] : k \in 1..MaxPeriod}

ServerConfigs == [secure : BOOLEAN, update_screen : BOOLEAN,
                  refresh_latency : RefreshChoices, hostname : {<<115>>}]
ClientConfigs == [secure : BOOLEAN, cold_run : BOOLEAN, hostname : {<<99>>}]

\* Option<TelekeyRemote>
NoRemote == [some |-> FALSE, hostname |-> <<>>, version |-> 0, mode |-> "None"]
SomeRemote(hostname, version, mode) ==
    [some |-> TRUE, hostname |-> hostname, version |-> version, mode |-> mode]

\* ------------------------------------------------------------------------
\* Pieces of the handlers
\* ------------------------------------------------------------------------
\* sec_handshake: `key.try_into()` to [u8; 32] succeeds
KeySizedAny(pt) == TRUE

KeySized(pt) == Len(pt) = KeyLen

\* Telekey::handshake, server: `secret != token` is false
SecretMatchesLength(secret, token) == Len(secret) = Len(token)

SecretMatches(secret, token) == secret = token

\* Telekey::serve: what the outer loop leaves in remote and state
ServeResetKeep(remote, state) == [remote |-> remote, state |-> state]

ServeReset(remote, state) == [remote |-> NoRemote, state |-> "Idle"]

\* wait_for_input: history.pop_front() when full, then push_back
HistoryPushNoEvict(history, e) == Append(history, e)

HistoryPush(history, e) ==
    IF Len(history) = HistoryCap THEN Append(Tail(history), e)
    ELSE Append(history, e)

\* wait_for_input: the match on self.state for a key that was read:
\* the next state and the events handed to send_packet
KeyStepSendWake(state, key) ==
    [state |-> "Active", send |-> <<KeyEventFromKey(key)>>]

KeyStep(state, key) ==
    IF state = "Idle" THEN [state |-> "Active", send |-> <<>>]
    ELSE [state |-> "Active", send |-> <<KeyEventFromKey(key)>>]

\* measure_latency: the packet it sends
PingProbeHandshake == RawPacket("Handshake", <<>>)

PingProbe == RawPacket("Ping", <<>>)

\* measure_latency: where the caller is once the probe is written: in
\* recv_packet, before anything else
AfterProbeNoWait(pc) == "loop"

AfterProbe(pc) == IF pc = "measure_init" THEN "wait_init" ELSE "wait_loop"

\* measure_latency: the error for a reply of another kind (the message goes
\* on with the kind received)
ExpectedPingError == "Expected ping packet received"

\* measure_latency: the panic of `p.data().try_into().unwrap()`
PingBodyPanic == "called Result::unwrap() on an Err value: TryFromSliceError"

\* measure_latency: the match on the kind of the packet received

ExpectedPingAny(kind) == TRUE

ExpectedPing(kind) == kind = "Ping"

\* handle_packet, KeyEvent: `self.remote.is_none()`
SenderUnknownNever(remote) == FALSE

SenderUnknown(remote) == ~remote.some

\* handle_packet, KeyEvent: `!self.is_server()`
HandlesKeyEventsIfServer(mode) == mode = "Server"

HandlesKeyEvents(mode) == mode # "Server"

\* handle_packet, Ping: the reply carries Utc::now().timestamp_nanos()
PingReplyEmpty(now) == RawPacket("Ping", <<>>)

PingReply(now) == RawPacket("Ping", I64BE(now))

\* handle_packet: the packets it sends for a packet it was given
HandleRepliesAck(p, now) ==
    IF p.kind \in {"Ping", "KeyEvent"} THEN <<PingReply(now)>> ELSE <<>>

HandleRepliesRehandshake(p, now) ==
    IF p.kind = "Ping" THEN <<PingReply(now)>>
    ELSE IF p.kind = "Handshake" THEN <<RawPacket("Handshake", <<>>)>>
    ELSE <<>>

HandleReplies(p, now) ==
    IF p.kind = "Ping" THEN <<PingReply(now)>> ELSE <<>>

\* wait_for_input: the latency counter at the end of an iteration
LatencyStep(refresh, cnt) ==
    IF ~refresh.some THEN [probe |-> FALSE, l |-> cnt]
    ELSE IF cnt = refresh.n THEN [probe |-> TRUE, l |-> cnt]
    ELSE [probe |-> FALSE, l |-> cnt + 1]

\* ------------------------------------------------------------------------
\* State
\* ------------------------------------------------------------------------
VARIABLES
    \* the server process (Telekey::serve and the Telekey it owns)
    srvConfig,   \* TelekeyConfig
    srvPc,       \* where serve is: accept, handshake, measure_init, wait_init,
                 \* loop, measure_loop, wait_loop, returned, aborted
    srvRemote,   \* Telekey.remote
    srvState,    \* Telekey.state
    srvTr,       \* the transport of the current connection
    skey,        \* the session secret of the current connection
    l,           \* wait_for_input: the keystroke counter
    history,     \* wait_for_input: the history VecDeque
    srvErr,      \* the last error serve saw
    sessions,    \* connections accepted so far
    reads,       \* read_key calls in the current session
    readErrs,    \* failed read_key calls in the current session
    \* the client process (Telekey::connect_to)
    cliConfig,
    cliPc,       \* none, prompt, hs_wait, listen, done, aborted; forged: the
                 \* peer is not connect_to
    cliRemote,
    cliTr,
    cliSkey,     \* the secret decoded from the typed token
    cliErr,
    injected,    \* keys clicked through enigo, in order
    stdout,      \* glyphs printed in cold_run, in order
    warnings,    \* runtime warnings printed by handle_packet
    \* the connection
    c2s,         \* frames written by the client, not yet read by the server
    s2c,         \* frames written by the server, not yet read by the client
    srvClosed,   \* the server's end of the socket is shut down or dropped
    cliClosed,
    tampers,     \* frames modified in flight in the current session
    \* history of the current session, for stating properties
    srvLog,      \* packets the server wrote: kind, payload, transport, frame
    cliLog,      \* packets the client wrote
    srvRecvd,    \* packets recv_packet returned to the server
    cliRecvd,    \* packets recv_packet returned to the client
    keyLog,      \* keys read by the input loop, with the state they were read in
    probes,      \* measure_latency calls made from inside the input loop
    srvShutdown, \* tr.shutdown() was called by the server
    ended,       \* how the last session that reached wait_for_input ended
    \* two transports on one byte stream, for the framing properties
    \* locals of the session
    tStart,      \* measure_latency: start
    measured,    \* measure_latency calls that returned Ok: start, middle, end
    cliState,    \* the client's Telekey.state
    cliToken,    \* connect_to: the line typed at the token prompt
    frSecure,    \* both ends are secure transports with mirrored keys
    frWire,      \* the bytes written and not yet read
    frFlight,    \* the chunks those bytes were written as, oldest first
    frClosed,    \* the writing end is closed
    frCount,     \* chunks written so far
    frRes,       \* the last recv_packet call: stream before, result, stream after
    \* one key event taken through the conversions, for their properties
    kcPc,        \* off, wire, event, clicked, printed, sent
    kcWire,      \* the i32 read for the field `kind`
    kcKey,       \* the u32 read for the field `key`
    kcEvent,     \* the KeyEvent built from them
    kcOut        \* what the conversion applied to it gave

srvVars == <<srvConfig, srvPc, srvRemote, srvState, srvTr, skey, l, history,
             srvErr, sessions, reads, readErrs>>
cliVars == <<cliConfig, cliPc, cliRemote, cliTr, cliSkey, cliErr, injected,
             stdout, warnings>>
netVars == <<c2s, s2c, srvClosed, cliClosed, tampers>>
logVars == <<srvLog, cliLog, srvRecvd, cliRecvd, keyLog, probes, srvShutdown,
             ended>>
frVars == <<frSecure, frWire, frFlight, frClosed, frCount, frRes>>
locVars == <<tStart, measured, cliState, cliToken>>
kcVars == <<kcPc, kcWire, kcKey, kcEvent, kcOut>>
vars == <<srvVars, cliVars, netVars, logVars, locVars, frVars, kcVars>>

\* nothing was typed at the prompt yet
NoToken == [typed |-> FALSE, inp |-> <<>>]

\* a written packet: the packet, the transport it went through, the send key
\* of that transport and the bytes written
LogEntry(tr, p) == [kind |-> p.kind, payload |-> p.payload, via |-> tr.kind,
                    key |-> tr.keys.tx, frame |-> SendPacket(tr, p)]

\* a packet returned by recv_packet and the transport that returned it
RecvEntry(tr, p) == [kind |-> p.kind, payload |-> p.payload, via |-> tr.kind]

NotEnded == [n |-> 0, err |-> "", remoteSome |-> FALSE, state |-> "Idle"]

\* no recv_packet call was made yet
NoRecv == [valid |-> FALSE, before |-> <<>>, res |-> RecvErr(""), after |-> <<>>,
           head |-> [sent |-> FALSE, pkt |-> NoPacket, frame |-> <<>>]]

\* a byte stream on which nothing was written
FramerStart ==
    /\ frWire = <<>>
    /\ frFlight = <<>>
    /\ frClosed = FALSE
    /\ frCount = 0
    /\ frRes = NoRecv

\* impl Default for KeyEvent
DefaultKeyEvent == [kind |-> "UNKNOWN", key |-> 0, modifiers |-> 0]
NoOutcome == [status |-> "none"]

\* no key event is being converted
CodecIdle ==
    /\ kcPc = "off"
    /\ kcWire = 0
    /\ kcKey = 0
    /\ kcEvent = DefaultKeyEvent
    /\ kcOut = NoOutcome

\* Telekey { remote: None, state: Idle, .. } and a listener with no connection
ProgramStart ==
    /\ srvPc = "accept"
    /\ srvRemote = NoRemote
    /\ srvState = "Idle"
    /\ srvTr = TcpTransport
    /\ skey = <<>>
    /\ l = 0
    /\ history = <<>>
    /\ srvErr = ""
    /\ sessions = 0
    /\ reads = 0
    /\ readErrs = 0
    /\ cliConfig = [secure |-> TRUE, cold_run |-> FALSE, hostname |-> <<99>>]
    /\ cliPc = "none"
    /\ cliRemote = NoRemote
    /\ cliTr = TcpTransport
    /\ cliSkey = <<>>
    /\ cliErr = ""
    /\ injected = <<>>
    /\ stdout = <<>>
    /\ warnings = 0
    /\ c2s = <<>>
    /\ s2c = <<>>
    /\ srvClosed = FALSE
    /\ cliClosed = FALSE
    /\ tampers = 0
    /\ srvLog = <<>>
    /\ cliLog = <<>>
    /\ srvRecvd = <<>>
    /\ cliRecvd = <<>>
    /\ keyLog = <<>>
    /\ probes = 0
    /\ srvShutdown = FALSE
    /\ ended = NotEnded
    /\ tStart = 0
    /\ measured = <<>>
    /\ cliState = "Idle"
    /\ cliToken = NoToken

Init ==
    /\ srvConfig \in ServerConfigs
    /\ ProgramStart
    /\ frSecure = FALSE
    /\ FramerStart
    /\ CodecIdle

\* ------------------------------------------------------------------------
\* How a step of the server ends
\* ------------------------------------------------------------------------
\* an error leaves serve through `?`: the process exits, the socket is dropped
ServeReturns(err) ==
    /\ srvPc' = "returned"
    /\ srvErr' = err
    /\ srvClosed' = TRUE

\* a panic aborts the server process
ServeAborts(err) ==
    /\ srvPc' = "aborted"
    /\ srvErr' = err
    /\ srvClosed' = TRUE

\* wait_for_input returned Err(e): serve logs it, resets remote and state,
\* drops the stream and goes on to the next connection
SessionCloses(err) ==
    /\ srvPc' = "accept"
    /\ srvErr' = err
    /\ srvClosed' = TRUE
    /\ srvRemote' = ServeReset(srvRemote, srvState).remote
    /\ srvState' = ServeReset(srvRemote, srvState).state
    /\ srvTr' = TcpTransport
    /\ l' = 0
    /\ history' = <<>>
    /\ ended' = [n |-> sessions, err |-> err, remoteSome |-> srvRemote.some,
                 state |-> srvState]

ClientGone == cliPc \in {"none", "done", "aborted"}

\* the client's connect_to returns (with or without an error) or panics
ClientEnds(pc, err) ==
    /\ cliPc' = pc
    /\ cliErr' = err
    /\ cliClosed' = TRUE

\* ------------------------------------------------------------------------
\* serve: accept the next connection (a new client process connected)
\* ------------------------------------------------------------------------
Accept ==
    /\ srvPc = "accept"
    /\ sessions < MaxSessions
    /\ ClientGone
    /\ sessions' = sessions + 1
    /\ skey' = SessionSecret(sessions + 1)
    /\ srvPc' = "handshake"
    /\ srvTr' = TcpTransport
    /\ reads' = 0
    /\ readErrs' = 0
    /\ cliConfig' \in ClientConfigs
    /\ cliPc' = "prompt"
    /\ cliRemote' = NoRemote
    /\ cliTr' = TcpTransport
    /\ cliSkey' = <<>>
    /\ cliErr' = ""
    /\ injected' = <<>>
    /\ stdout' = <<>>
    /\ warnings' = 0
    /\ c2s' = <<>>
    /\ s2c' = <<>>
    /\ srvClosed' = FALSE
    /\ cliClosed' = FALSE
    /\ tampers' = 0
    /\ srvLog' = <<>>
    /\ cliLog' = <<>>
    /\ srvRecvd' = <<>>
    /\ cliRecvd' = <<>>
    /\ keyLog' = <<>>
    /\ probes' = 0
    /\ srvShutdown' = FALSE
    /\ UNCHANGED <<srvConfig, srvRemote, srvState, l, history, srvErr, ended>>
    /\ tStart' = 0
    /\ measured' = <<>>
    /\ cliState' = "Idle"
    /\ cliToken' = NoToken
    /\ UNCHANGED <<frVars, kcVars>>

\* ------------------------------------------------------------------------
\* Handshake, server side.  Each operator gives the set of ways the call can
\* end: the value of pc after it, the error, the stream to the client, remote,
\* the transport returned, whether shutdown was called, the packets written.
\* ------------------------------------------------------------------------
HandshakeEnd(pc, err, out, remote, tr, shut, log) ==
    [pc |-> pc, err |-> err, out |-> out, remote |-> remote, tr |-> tr,
     shutdown |-> shut, log |-> log]

\* Telekey::handshake, the Server branch
HandshakeServer ==
    LET r == RecvFrom(srvTr, c2s, cliClosed)
        d == DecodeHandshakeRequest(r.pkt.payload)
        resp == NewPacket("Handshake", HandshakeResponseBytes(
                    [hostname |-> srvConfig.hostname, version |-> VERSION_NUM,
                     pkey |-> <<>>]))
        fail(e, shut) == HandshakeEnd("returned", e, s2c, srvRemote, srvTr, shut, <<>>)
    IN  IF r.status # "ok" THEN {fail(r.err, FALSE)}
        ELSE IF ~d.ok THEN {fail("Failed to decode HandshakeRequest message", FALSE)}
        ELSE IF ~SecretMatches(skey, d.msg.token)
        THEN {fail("Invalid secret", TRUE),
              fail("Failed to close socket (Invalid secret)", TRUE)}
        ELSE {IF w.ok
              THEN HandshakeEnd("measure_init", "", w.chan,
                                SomeRemote(d.msg.hostname, d.msg.version, "Client"),
                                srvTr, FALSE, <<LogEntry(srvTr, resp)>>)
              ELSE fail("BrokenPipe", FALSE)
              : w \in WriteOutcomes(s2c, SendPacket(srvTr, resp), cliClosed)}

\* Telekey::sec_handshake, the Server branch
SecHandshakeServer ==
    LET r == RecvFrom(srvTr, c2s, cliClosed)
        d == DecodeHandshakeRequest(r.pkt.payload)
        opened == Open(skey, d.msg.pkey)
        priv == ServerEphemeral(sessions)
        resp == NewPacket("Handshake", HandshakeResponseBytes(
                    [hostname |-> srvConfig.hostname, version |-> VERSION_NUM,
                     pkey |-> Seal(skey, PublicKeyBytes(priv))]))
        fail(e) == HandshakeEnd("returned", e, s2c, srvRemote, srvTr, FALSE, <<>>)
    IN  IF r.status # "ok" THEN {fail("Failed to receive handshake")}
        ELSE IF ~d.ok THEN {fail("Failed to decode HandshakeRequest message")}
        ELSE IF ~opened.ok
        THEN {fail("Could not open client public key with session secret")}
        ELSE IF ~KeySized(opened.pt)
        THEN {fail("Received an incorrectly sized key")}
        ELSE {IF w.ok
              THEN HandshakeEnd("measure_init", "", w.chan,
                                SomeRemote(d.msg.hostname, d.msg.version, "Client"),
                                KexTransport(EstablishWithClient(priv, opened.pt)),
                                FALSE, <<LogEntry(srvTr, resp)>>)
              ELSE fail("BrokenPipe")
              : w \in WriteOutcomes(s2c, SendPacket(srvTr, resp), cliClosed)}

\* serve: the handshake call on the accepted stream; on Ok the server
\* enters wait_for_input, on Err the `?` returns from serve
SrvHandshake ==
    /\ srvPc = "handshake"
    /\ CanRecv(c2s, cliClosed)
    /\ \E o \in (IF srvConfig.secure THEN SecHandshakeServer ELSE HandshakeServer) :
        /\ srvPc' = o.pc
        /\ srvErr' = IF o.pc = "returned" THEN o.err ELSE srvErr
        /\ srvClosed' = (o.pc = "returned")
        /\ srvRemote' = o.remote
        /\ srvTr' = o.tr
        /\ s2c' = o.out
        /\ srvShutdown' = o.shutdown
        /\ srvLog' = srvLog \o o.log
    /\ c2s' = IF Len(c2s) > 0 THEN Tail(c2s) ELSE c2s
    /\ srvRecvd' = LET r == RecvFrom(srvTr, c2s, cliClosed)
                   IN  IF r.status = "ok" THEN Append(srvRecvd, RecvEntry(srvTr, r.pkt))
                       ELSE srvRecvd
    /\ UNCHANGED <<srvConfig, srvState, skey, l, history, sessions, reads, readErrs>>
    /\ UNCHANGED <<cliVars, cliClosed, tampers>>
    /\ UNCHANGED <<cliLog, cliRecvd, keyLog, probes, ended>>
    /\ UNCHANGED locVars
    /\ UNCHANGED <<frVars, kcVars>>

\* ------------------------------------------------------------------------
\* Handshake, client side
\* ------------------------------------------------------------------------
\* the HandshakeRequest of Telekey::handshake and Telekey::sec_handshake
ClientRequestWithToken(secure, secret) ==
    NewPacket("Handshake", HandshakeRequestBytes(
        [hostname |-> cliConfig.hostname, version |-> VERSION_NUM,
         token |-> secret,
         pkey |-> IF secure
                  THEN Seal(secret, PublicKeyBytes(ClientEphemeral(sessions)))
                  ELSE <<>>]))

ClientRequest(secure, secret) ==
    NewPacket("Handshake", HandshakeRequestBytes(
        IF secure
        THEN [hostname |-> cliConfig.hostname, version |-> VERSION_NUM,
              token |-> <<>>,
              pkey |-> Seal(secret, PublicKeyBytes(ClientEphemeral(sessions)))]
        ELSE [hostname |-> cliConfig.hostname, version |-> VERSION_NUM,
              token |-> secret, pkey |-> <<>>]))

\* connect_to up to the first recv_packet of the handshake: read the token,
\* decode it, send the HandshakeRequest
CliSendHandshake ==
    /\ cliPc = "prompt"
    /\ srvPc = "handshake"
    /\ Len(c2s) < SockBuf
    /\ \E inp \in TokenInputs(skey) :
        /\ cliToken' = [typed |-> TRUE, inp |-> inp]
        /\ IF ~ParseToken(inp).ok
           THEN /\ ClientEnds("done", ParseToken(inp).err)
                /\ UNCHANGED <<cliSkey, c2s, cliLog>>
           ELSE LET p == ClientRequest(cliConfig.secure, ParseToken(inp).key)
                IN  \E w \in WriteOutcomes(c2s, SendPacket(cliTr, p), srvClosed) :
                    /\ cliSkey' = ParseToken(inp).key
                    /\ IF w.ok
                       THEN /\ c2s' = w.chan
                            /\ cliLog' = Append(cliLog, LogEntry(cliTr, p))
                            /\ cliPc' = "hs_wait"
                            /\ UNCHANGED <<cliErr, cliClosed>>
                       ELSE /\ ClientEnds("done", "BrokenPipe")
                            /\ UNCHANGED <<c2s, cliLog>>
    /\ UNCHANGED <<srvVars, cliConfig, cliRemote, cliTr, injected, stdout, warnings>>
    /\ UNCHANGED <<s2c, srvClosed, tampers>>
    /\ UNCHANGED <<srvLog, srvRecvd, cliRecvd, keyLog, probes, srvShutdown, ended>>
    /\ UNCHANGED <<tStart, measured, cliState>>
    /\ UNCHANGED <<frVars, kcVars>>

\* a HandshakeRequest from a client of another make that holds the token:
\* the sealed public key is one byte short
ForgedRequest ==
    NewPacket("Handshake", HandshakeRequestBytes(
        [hostname |-> <<120>>, version |-> VERSION_NUM, token |-> <<>>,
         pkey |-> Seal(skey, Rep(7, KeyLen - 1))]))

\* such a client connects to a secure server in place of connect_to
PeerForgedRequest ==
    /\ cliPc = "prompt"
    /\ srvPc = "handshake"
    /\ srvConfig.secure
    /\ Len(c2s) < SockBuf
    /\ c2s' = Append(c2s, SendPacket(TcpTransport, ForgedRequest))
    /\ cliPc' = "forged"
    /\ UNCHANGED <<srvVars, cliConfig, cliRemote, cliTr, cliSkey, cliErr, injected,
                   stdout, warnings>>
    /\ UNCHANGED <<s2c, srvClosed, cliClosed, tampers>>
    /\ UNCHANGED <<logVars, locVars, frVars, kcVars>>

\* Telekey::handshake and Telekey::sec_handshake, the Client branch after the
\* request was sent: [pc, err, remote, tr]
HandshakeClient ==
    LET r == RecvFrom(cliTr, s2c, srvClosed)
        d == DecodeHandshakeResponse(r.pkt.payload)
        remote == SomeRemote(d.msg.hostname, d.msg.version, "Server")
        opened == Open(cliSkey, d.msg.pkey)
        end(pc, e, rem, tr) == [pc |-> pc, err |-> e, remote |-> rem, tr |-> tr]
    IN  IF r.status # "ok" THEN end("done", r.err, cliRemote, cliTr)
        ELSE IF ~d.ok
        THEN end("done", "Failed to decode HandshakeResponse message", cliRemote, cliTr)
        ELSE IF ~cliConfig.secure THEN end("listen", "", remote, cliTr)
        ELSE IF ~opened.ok
        THEN end("done", "Could not open server public key with session secret",
                 remote, cliTr)
        ELSE IF ~KeySized(opened.pt)
        THEN end("done", "Received an incorrectly sized key", remote, cliTr)
        ELSE end("listen", "", remote,
                 KexTransport(EstablishWithServer(ClientEphemeral(sessions), opened.pt)))

CliRecvHandshake ==
    /\ cliPc = "hs_wait"
    /\ CanRecv(s2c, srvClosed)
    /\ LET o == HandshakeClient
       IN  /\ cliPc' = o.pc
           /\ cliErr' = o.err
           /\ cliClosed' = (o.pc = "done")
           /\ cliRemote' = o.remote
           /\ cliTr' = o.tr
    /\ s2c' = IF Len(s2c) > 0 THEN Tail(s2c) ELSE s2c
    /\ cliRecvd' = LET r == RecvFrom(cliTr, s2c, srvClosed)
                   IN  IF r.status = "ok" THEN Append(cliRecvd, RecvEntry(cliTr, r.pkt))
                       ELSE cliRecvd
    /\ UNCHANGED <<srvVars, cliConfig, cliSkey, injected, stdout, warnings>>
    /\ UNCHANGED <<c2s, srvClosed, tampers>>
    /\ UNCHANGED <<srvLog, cliLog, srvRecvd, keyLog, probes, srvShutdown, ended>>
    /\ UNCHANGED locVars
    /\ UNCHANGED <<frVars, kcVars>>

\* ------------------------------------------------------------------------
\* wait_for_input (run by the server) and measure_latency
\* ------------------------------------------------------------------------
\* Utc::now().timestamp_nanos(): a logical clock that advances with every
\* packet written and every key read in the session
Now == Len(srvLog) + Len(cliLog) + reads

InLoop == srvPc \in {"loop", "measure_loop", "wait_loop"}

\* measure_latency, up to its recv_packet: send a Ping with an empty payload.
\* Called once when wait_for_input starts and from the loop when the counter
\* equals the period.
SrvMeasureSend ==
    /\ srvPc \in {"measure_init", "measure_loop"}
    /\ Len(s2c) < SockBuf
    /\ probes' = IF srvPc = "measure_loop" THEN probes + 1 ELSE probes
    /\ LET p == PingProbe
       IN  \E w \in WriteOutcomes(s2c, SendPacket(srvTr, p), cliClosed) :
             IF w.ok
             THEN /\ s2c' = w.chan
                  /\ srvLog' = Append(srvLog, LogEntry(srvTr, p))
                  /\ srvPc' = AfterProbe(srvPc)
                  /\ UNCHANGED <<srvErr, srvClosed, srvRemote, srvState, srvTr, l,
                                 history, ended>>
             ELSE /\ SessionCloses("BrokenPipe")
                  /\ UNCHANGED <<s2c, srvLog>>
    /\ UNCHANGED <<srvConfig, skey, sessions, reads, readErrs>>
    /\ UNCHANGED <<cliVars, c2s, cliClosed, tampers>>
    /\ UNCHANGED <<cliLog, srvRecvd, cliRecvd, keyLog, srvShutdown>>
    /\ tStart' = Now
    /\ UNCHANGED <<measured, cliState, cliToken>>
    /\ UNCHANGED <<frVars, kcVars>>

\* measure_latency from its recv_packet on, and the caller's code up to the
\* next blocking call: the loop starts, or goes on, with l = 0
SrvMeasureRecv ==
    /\ srvPc \in {"wait_init", "wait_loop"}
    /\ CanRecv(c2s, cliClosed)
    /\ LET r == RecvFrom(srvTr, c2s, cliClosed)
       IN  /\ c2s' = IF Len(c2s) > 0 THEN Tail(c2s) ELSE c2s
           /\ srvRecvd' = IF r.status = "ok"
                          THEN Append(srvRecvd, RecvEntry(srvTr, r.pkt)) ELSE srvRecvd
           /\ measured' = IF r.status = "ok" /\ ExpectedPing(r.pkt.kind)
                              /\ Len(r.pkt.payload) = PingBodyLen
                           THEN Append(measured, [start |-> tStart,
                                                  middle |-> I64FromBE(r.pkt.payload),
                                                  end |-> Now])
                           ELSE measured
           /\ IF r.status = "panic"
              THEN /\ ServeAborts(r.err)
                   /\ UNCHANGED <<srvRemote, srvState, srvTr, l, history, ended>>
              ELSE IF r.status = "err"
              THEN SessionCloses(r.err)
              ELSE IF ~ExpectedPing(r.pkt.kind)
              THEN SessionCloses(ExpectedPingError)
              ELSE IF Len(r.pkt.payload) # PingBodyLen
              THEN /\ ServeAborts(PingBodyPanic)
                   /\ UNCHANGED <<srvRemote, srvState, srvTr, l, history, ended>>
              ELSE /\ srvPc' = "loop"
                   /\ l' = 0
                   /\ history' = IF srvPc = "wait_init" THEN <<>> ELSE history
                   /\ UNCHANGED <<srvErr, srvClosed, srvRemote, srvState, srvTr, ended>>
    /\ UNCHANGED <<srvConfig, skey, sessions, reads, readErrs>>
    /\ UNCHANGED <<cliVars, s2c, cliClosed, tampers>>
    /\ UNCHANGED <<srvLog, cliLog, cliRecvd, keyLog, probes, srvShutdown>>
    /\ UNCHANGED <<tStart, cliState, cliToken>>
    /\ UNCHANGED <<frVars, kcVars>>

\* read_key calls explored in the current session: long runs of keys in the
\* first session only
ReadBudget == IF sessions <= 1 THEN MaxReads ELSE LaterReads

\* the results term.read_key() can give for the next call
ReadResults ==
    {[ok |-> TRUE, key |-> k] : k \in KeyChoices(reads)}
    \cup (IF readErrs < MaxReadErrs /\ reads < VariedReads
          THEN {[ok |-> FALSE, key |-> TermKey("none", 0)]} ELSE {})

\* one iteration of the loop of wait_for_input, both variants: read a key,
\* match on the state, send, record in the history, step the latency counter
SrvReadKey ==
    /\ srvPc = "loop"
    /\ reads < ReadBudget
    /\ \E res \in ReadResults :
        LET step == IF res.ok THEN KeyStep(srvState, res.key)
                    ELSE [state |-> srvState, send |-> <<>>]
            lat == LatencyStep(srvConfig.refresh_latency, l)
        IN  /\ reads' = reads + 1
            /\ readErrs' = IF res.ok THEN readErrs ELSE readErrs + 1
            /\ keyLog' = IF res.ok
                         THEN Append(keyLog, [key |-> res.key, state |-> srvState])
                         ELSE keyLog
            /\ IF step.send = <<>>
               THEN /\ srvState' = step.state
                    /\ l' = lat.l
                    /\ srvPc' = IF lat.probe THEN "measure_loop" ELSE "loop"
                    /\ UNCHANGED <<s2c, srvLog, history, srvErr, srvClosed,
                                   srvRemote, srvTr, ended>>
               ELSE /\ Len(s2c) < SockBuf
                    /\ LET p == KeyEventPacket(step.send[1])
                       IN  \E w \in WriteOutcomes(s2c, SendPacket(srvTr, p), cliClosed) :
                             IF w.ok
                             THEN /\ s2c' = w.chan
                                  /\ srvLog' = Append(srvLog, LogEntry(srvTr, p))
                                  /\ history' = IF srvConfig.update_screen
                                                THEN HistoryPush(history, step.send[1])
                                                ELSE history
                                  /\ srvState' = step.state
                                  /\ l' = lat.l
                                  /\ srvPc' = IF lat.probe THEN "measure_loop" ELSE "loop"
                                  /\ UNCHANGED <<srvErr, srvClosed, srvRemote, srvTr, ended>>
                             ELSE /\ SessionCloses("BrokenPipe")
                                  /\ UNCHANGED <<s2c, srvLog>>
    /\ UNCHANGED <<srvConfig, skey, sessions>>
    /\ UNCHANGED <<cliVars, c2s, cliClosed, tampers>>
    /\ UNCHANGED <<cliLog, srvRecvd, cliRecvd, probes, srvShutdown>>
    /\ UNCHANGED locVars
    /\ UNCHANGED <<frVars, kcVars>>

\* ------------------------------------------------------------------------
\* listen_loop and handle_packet (run by the client)
\* ------------------------------------------------------------------------
ListenEnd(pc, err, closed, inj, out, warn, chan, log) ==
    [pc |-> pc, err |-> err, closed |-> closed, injected |-> inj,
     stdout |-> out, warnings |-> warn, c2s |-> chan, log |-> log]

\* handle_packet: the panic of `char::from_u32(e.key).unwrap()`
CharPanic == "called Option::unwrap() on a None value"

\* handle_packet: a runtime warning is printed and Ok(()) returned
RuntimeWarningFatal(same) ==
    [same EXCEPT !.warnings = @ + 1, !.pc = "done", !.closed = TRUE,
                 !.err = "RUNTIME ERROR"]

RuntimeWarning(same) == [same EXCEPT !.warnings = @ + 1]

\* the ways one iteration of listen_loop can end
ListenOutcomes ==
    LET r == IF cliClosed THEN RecvErr("UnexpectedEof")
             ELSE RecvFrom(cliTr, s2c, srvClosed)
        p == r.pkt
        d == DecodeKeyEvent(p.payload)
        same == ListenEnd("listen", cliErr, cliClosed, injected, stdout,
                          warnings, c2s, <<>>)
        ends(pc, e) == ListenEnd(pc, e, TRUE, injected, stdout, warnings, c2s, <<>>)
        sends == HandleReplies(p, Now)
    IN  IF r.status = "panic" THEN {ends("aborted", r.err)}
        ELSE IF r.status = "err" THEN {ends("done", r.err)}
        ELSE IF sends # <<>>
        THEN {IF w.ok
              THEN [same EXCEPT !.c2s = w.chan, !.log = <<LogEntry(cliTr, sends[1])>>]
              ELSE ends("done", "Could not respond to ping packet")
              : w \in WriteOutcomes(c2s, SendPacket(cliTr, sends[1]), srvClosed)}
        ELSE IF p.kind = "Handshake" THEN {same}
        ELSE IF p.kind = "KeyEvent"
        THEN IF SenderUnknown(cliRemote)
             THEN {[same EXCEPT !.closed = TRUE]}
             ELSE IF ~HandlesKeyEvents("Client") THEN {same}
             ELSE IF ~d.ok THEN {ends("done", "Failed to decode KeyEvent message")}
             ELSE IF cliConfig.cold_run
             THEN IF DisplayKeyEvent(d.msg).status = "panic"
                  THEN {ends("aborted", CharPanic)}
                  ELSE {[same EXCEPT !.stdout = Append(stdout, DisplayKeyEvent(d.msg).glyph)]}
             ELSE IF EnigoKey(d.msg).status = "panic"
                  THEN {ends("aborted", CharPanic)}
                  ELSE IF EnigoKey(d.msg).status = "ok"
                  THEN {[same EXCEPT !.injected = Append(injected, EnigoKey(d.msg).key)]}
                  ELSE {RuntimeWarning(same)}
        ELSE {RuntimeWarning(same)}

CliListen ==
    /\ cliPc = "listen"
    /\ CanRecv(s2c, srvClosed) \/ cliClosed
    /\ Len(c2s) < SockBuf
    /\ \E o \in ListenOutcomes :
        /\ cliPc' = o.pc
        /\ cliErr' = o.err
        /\ cliClosed' = o.closed
        /\ injected' = o.injected
        /\ stdout' = o.stdout
        /\ warnings' = o.warnings
        /\ c2s' = o.c2s
        /\ cliLog' = cliLog \o o.log
    /\ s2c' = IF Len(s2c) > 0 /\ ~cliClosed THEN Tail(s2c) ELSE s2c
    /\ cliRecvd' = LET r == RecvFrom(cliTr, s2c, srvClosed)
                   IN  IF ~cliClosed /\ r.status = "ok"
                       THEN Append(cliRecvd, RecvEntry(cliTr, r.pkt)) ELSE cliRecvd
    /\ UNCHANGED <<srvVars, cliConfig, cliRemote, cliTr, cliSkey>>
    /\ UNCHANGED <<srvClosed, tampers>>
    /\ UNCHANGED <<srvLog, srvRecvd, keyLog, probes, srvShutdown, ended>>
    /\ UNCHANGED locVars
    /\ UNCHANGED <<frVars, kcVars>>

\* ------------------------------------------------------------------------
\* The environment
\* ------------------------------------------------------------------------
\* the operator ends the client process
CliQuit ==
    /\ cliPc \in {"prompt", "hs_wait", "listen"}
    /\ ClientEnds("done", "interrupted")
    /\ UNCHANGED <<srvVars, cliConfig, cliRemote, cliTr, cliSkey, injected,
                   stdout, warnings>>
    /\ UNCHANGED <<c2s, s2c, srvClosed, tampers, logVars>>
    /\ UNCHANGED locVars
    /\ UNCHANGED <<frVars, kcVars>>

\* one of the first frames of the session is modified on its way to the
\* server / to the client
TamperC2S ==
    /\ tampers < MaxTamper
    /\ Len(srvLog) + Len(cliLog) <= TamperWindow
    /\ Len(c2s) > 0
    /\ \E f \in TamperedFrames(Head(c2s)) : c2s' = <<f>> \o Tail(c2s)
    /\ tampers' = tampers + 1
    /\ UNCHANGED <<srvVars, cliVars, s2c, srvClosed, cliClosed, logVars>>
    /\ UNCHANGED locVars
    /\ UNCHANGED <<frVars, kcVars>>

TamperS2C ==
    /\ tampers < MaxTamper
    /\ Len(srvLog) + Len(cliLog) <= TamperWindow
    /\ Len(s2c) > 0
    /\ \E f \in TamperedFrames(Head(s2c)) : s2c' = <<f>> \o Tail(s2c)
    /\ tampers' = tampers + 1
    /\ UNCHANGED <<srvVars, cliVars, c2s, srvClosed, cliClosed, logVars>>
    /\ UNCHANGED locVars
    /\ UNCHANGED <<frVars, kcVars>>

Next ==
    \/ Accept
    \/ SrvHandshake
    \/ CliSendHandshake
    \/ CliRecvHandshake
    \/ PeerForgedRequest
    \/ SrvMeasureSend
    \/ SrvMeasureRecv
    \/ SrvReadKey
    \/ CliListen
    \/ CliQuit
    \/ TamperC2S
    \/ TamperS2C

Spec == Init /\ [][Next]_vars

\* ------------------------------------------------------------------------
\* The transports alone: a writer sends packets through send_packet on a byte
\* stream, a reader calls recv_packet on it
\* ------------------------------------------------------------------------
\* the packets handed to send_packet
FrKinds == {"Handshake", "KeyEvent", "Ping", "Unknown"}
FrBodies == {<<>>, <<2>>, <<1, 0, 255>>}
\* bytes a peer can write without send_packet: a zero length prefix, a frame
\* with kind byte 99 and an empty body
FrRawChunks == {<<0, 0, 0, 0>>, <<0, 0, 0, 1, 99>>}
\* the start of a frame whose writer died: prefix 3, one byte
FrPartialChunks == {<<0, 0, 0, 3, 1>>, <<0, 0>>}

FramerKeys == EstablishWithClient(1, KeyBytes(2))
FrWriter == IF frSecure THEN KexTransport(FramerKeys) ELSE TcpTransport
FrReader == IF frSecure THEN KexTransport(EstablishWithServer(2, KeyBytes(1)))
            ELSE TcpTransport

FramerInit ==
    /\ srvConfig = [secure |-> TRUE, update_screen |-> TRUE,
                    refresh_latency |-> NoRefresh, hostname |-> <<115>>]
    /\ ProgramStart
    /\ frSecure \in BOOLEAN
    /\ FramerStart
    /\ CodecIdle

FrWrite(chunk) ==
    /\ frWire' = frWire \o chunk.frame
    /\ frFlight' = Append(frFlight, chunk)
    /\ frCount' = frCount + 1

\* send_packet of the writer's transport
FrSend ==
    /\ ~frClosed
    /\ frCount < MaxFrames
    /\ \E k \in FrKinds, b \in FrBodies :
          FrWrite([sent |-> TRUE, pkt |-> RawPacket(k, b),
                   frame |-> SendPacket(FrWriter, RawPacket(k, b))])
    /\ UNCHANGED <<frSecure, frClosed, frRes>>
    /\ UNCHANGED <<srvVars, cliVars, netVars, logVars, locVars, kcVars>>

\* a peer writes a frame of its own making
FrInject ==
    /\ ~frClosed
    /\ frCount < MaxFrames
    /\ \E c \in FrRawChunks :
          FrWrite([sent |-> FALSE, pkt |-> NoPacket, frame |-> c])
    /\ UNCHANGED <<frSecure, frClosed, frRes>>
    /\ UNCHANGED <<srvVars, cliVars, netVars, logVars, locVars, kcVars>>

\* the writer goes away, possibly in the middle of a frame
FrCut ==
    /\ ~frClosed
    /\ frClosed' = TRUE
    /\ \E c \in FrPartialChunks \cup {<<>>} :
          FrWrite([sent |-> FALSE, pkt |-> NoPacket, frame |-> c])
    /\ UNCHANGED <<frSecure, frRes>>
    /\ UNCHANGED <<srvVars, cliVars, netVars, logVars, locVars, kcVars>>

\* read_exact can return: the bytes of a whole frame are there, or the
\* stream ended
FrReadable ==
    \/ frClosed
    \/ Len(frWire) >= 4 /\ (U32FromBE(Take(frWire, 4)) = 0
                             \/ Len(frWire) >= 4 + U32FromBE(Take(frWire, 4)))

\* recv_packet of the reader's transport; after an error or a panic the
\* reader is gone
FrRecv ==
    /\ FrReadable
    /\ frRes.valid => frRes.res.status = "ok"
    /\ frFlight # <<>>
    /\ frRes' = [valid |-> TRUE, before |-> frWire,
                 res |-> RecvPacket(FrReader, frWire),
                 after |-> Drop(frWire, FrameLength(frWire)),
                 head |-> Head(frFlight)]
    /\ frWire' = Drop(frWire, FrameLength(frWire))
    /\ frFlight' = Tail(frFlight)
    /\ UNCHANGED <<frSecure, frClosed, frCount>>
    /\ UNCHANGED <<srvVars, cliVars, netVars, logVars, locVars, kcVars>>

FramerNext ==
    \/ FrSend
    \/ FrInject
    \/ FrCut
    \/ FrRecv

FramerSpec == FramerInit /\ [][FramerNext]_vars

\* ------------------------------------------------------------------------
\* listen_loop alone: a Telekey in Client mode runs listen_loop on a
\* connection whose peer writes the packets of its choice
\* ------------------------------------------------------------------------
\* the key events the peer puts in KeyEvent packets: a letter, a key with no
\* injector mapping, F1, Enter, a surrogate, a value above char::MAX
LsEvents == {[kind |-> "CHAR", key |-> 97, modifiers |-> 0],
             [kind |-> "INSERT", key |-> 0, modifiers |-> 0],
             [kind |-> "FUNCTION", key |-> 1, modifiers |-> 0],
             [kind |-> "ENTER", key |-> 0, modifiers |-> 0],
             [kind |-> "CHAR", key |-> 55296, modifiers |-> 0],
             [kind |-> "CHAR", key |-> 1114112, modifiers |-> 0]}
\* the packets the peer hands to send_packet
LsPackets == {KeyEventPacket(e) : e \in LsEvents}
             \cup {RawPacket("Ping", <<>>), RawPacket("Handshake", <<>>),
                   RawPacket("Unknown", <<>>), RawPacket("KeyEvent", <<5>>)}
\* a frame the peer writes without send_packet: kind byte 99, empty body
LsRawFrame == <<0, 0, 0, 1, 99>>

LsPeer == IF cliConfig.secure THEN KexTransport(FramerKeys) ELSE TcpTransport
LsListener == IF cliConfig.secure
              THEN KexTransport(EstablishWithServer(2, KeyBytes(1)))
              ELSE TcpTransport
\* Telekey.remote when listen_loop is entered
LsRemotes == {NoRemote, SomeRemote(<<115>>, VERSION_NUM, "Server")}

ListenInit ==
    /\ srvConfig = [secure |-> TRUE, update_screen |-> TRUE,
                    refresh_latency |-> NoRefresh, hostname |-> <<115>>]
    /\ srvPc = "loop"
    /\ srvRemote = NoRemote
    /\ srvState = "Idle"
    /\ srvTr = TcpTransport
    /\ skey = <<>>
    /\ l = 0
    /\ history = <<>>
    /\ srvErr = ""
    /\ sessions = 1
    /\ reads = 0
    /\ readErrs = 0
    /\ cliConfig \in ClientConfigs
    /\ cliPc = "listen"
    /\ cliRemote \in LsRemotes
    /\ cliTr = LsListener
    /\ cliSkey = <<>>
    /\ cliErr = ""
    /\ injected = <<>>
    /\ stdout = <<>>
    /\ warnings = 0
    /\ c2s = <<>>
    /\ s2c = <<>>
    /\ srvClosed = FALSE
    /\ cliClosed = FALSE
    /\ tampers = 0
    /\ srvLog = <<>>
    /\ cliLog = <<>>
    /\ srvRecvd = <<>>
    /\ cliRecvd = <<>>
    /\ keyLog = <<>>
    /\ probes = 0
    /\ srvShutdown = FALSE
    /\ ended = NotEnded
    /\ tStart = 0
    /\ measured = <<>>
    /\ cliState = "Idle"
    /\ cliToken = NoToken
    /\ frSecure = FALSE
    /\ FramerStart
    /\ CodecIdle

\* frames the peer has written so far
LsFed == Len(srvLog) + tampers

\* the peer writes a packet through its transport
LsPeerSend ==
    /\ ~srvClosed
    /\ LsFed < MaxFeed
    /\ Len(s2c) < SockBuf
    /\ \E p \in LsPackets :
          /\ s2c' = Append(s2c, SendPacket(LsPeer, p))
          /\ srvLog' = Append(srvLog, LogEntry(LsPeer, p))
    /\ UNCHANGED <<srvVars, cliVars, c2s, srvClosed, cliClosed, tampers>>
    /\ UNCHANGED <<cliLog, srvRecvd, cliRecvd, keyLog, probes, srvShutdown, ended>>
    /\ UNCHANGED <<locVars, frVars, kcVars>>

\* the peer writes a frame of its own making
LsPeerInject ==
    /\ ~srvClosed
    /\ LsFed < MaxFeed
    /\ Len(s2c) < SockBuf
    /\ s2c' = Append(s2c, LsRawFrame)
    /\ tampers' = tampers + 1
    /\ UNCHANGED <<srvVars, cliVars, c2s, srvClosed, cliClosed>>
    /\ UNCHANGED <<logVars, locVars, frVars, kcVars>>

\* the peer reads what the listener wrote
LsPeerTake ==
    /\ Len(c2s) > 0
    /\ c2s' = Tail(c2s)
    /\ srvRecvd' = Append(srvRecvd, RecvEntry(LsPeer, RecvPacket(LsPeer, Head(c2s)).pkt))
    /\ UNCHANGED <<srvVars, cliVars, s2c, srvClosed, cliClosed, tampers>>
    /\ UNCHANGED <<srvLog, cliLog, cliRecvd, keyLog, probes, srvShutdown, ended>>
    /\ UNCHANGED <<locVars, frVars, kcVars>>

\* the peer closes the connection
LsPeerClose ==
    /\ ~srvClosed
    /\ srvClosed' = TRUE
    /\ UNCHANGED <<srvVars, cliVars, c2s, s2c, cliClosed, tampers>>
    /\ UNCHANGED <<logVars, locVars, frVars, kcVars>>

ListenNext ==
    \/ LsPeerSend
    \/ LsPeerInject
    \/ LsPeerTake
    \/ LsPeerClose
    \/ CliListen

ListenSpec == ListenInit /\ [][ListenNext]_vars

\* ------------------------------------------------------------------------
\* The key conversions alone: a KeyEvent is read from the wire, then clicked,
\* printed or written back
\* ------------------------------------------------------------------------
\* values read_enum can return for `kind`: negative ones, the 19 listed, the
\* gap at 12, values above 19
KcWires == ((0 - 2)..MaxWire) \cup {255}
\* values of `key`: none, a function-key index, a letter, a surrogate,
\* char::MAX, the value after it
KcKeys == {0, 1, 97, 55296, 1114111, 1114112}

CodecInit ==
    /\ srvConfig = [secure |-> TRUE, update_screen |-> TRUE,
                    refresh_latency |-> NoRefresh, hostname |-> <<115>>]
    /\ ProgramStart
    /\ frSecure = FALSE
    /\ FramerStart
    /\ kcPc = "wire"
    /\ kcWire \in KcWires
    /\ kcKey \in KcKeys
    /\ kcEvent = DefaultKeyEvent
    /\ kcOut = NoOutcome

KcUnchanged == UNCHANGED <<srvVars, cliVars, netVars, logVars, locVars, frVars>>

\* MessageRead for KeyEvent: kind = r.read_enum(bytes)?, key = r.read_uint32
KcRead ==
    /\ kcPc = "wire"
    /\ kcEvent' = [kind |-> KeyKindFromI32(kcWire), key |-> kcKey, modifiers |-> 0]
    /\ kcPc' = "event"
    /\ UNCHANGED <<kcWire, kcKey, kcOut>>
    /\ KcUnchanged

\* handle_packet, injection mode: (&msg).into()
KcClick ==
    /\ kcPc = "event"
    /\ kcOut' = EnigoKey(kcEvent)
    /\ kcPc' = "clicked"
    /\ UNCHANGED <<kcWire, kcKey, kcEvent>>
    /\ KcUnchanged

\* handle_packet, cold_run: print!("{}", msg)
KcPrint ==
    /\ kcPc = "event"
    /\ kcOut' = DisplayKeyEvent(kcEvent)
    /\ kcPc' = "printed"
    /\ UNCHANGED <<kcWire, kcKey, kcEvent>>
    /\ KcUnchanged

\* the event is written as a KeyEvent packet and read back
KcSend ==
    /\ kcPc = "event"
    /\ kcOut' = [status |-> "sent", pkt |-> KeyEventPacket(kcEvent),
                 back |-> DecodeKeyEvent(KeyEventPacket(kcEvent).payload)]
    /\ kcPc' = "sent"
    /\ UNCHANGED <<kcWire, kcKey, kcEvent>>
    /\ KcUnchanged

CodecNext ==
    \/ KcRead
    \/ KcClick
    \/ KcPrint
    \/ KcSend

CodecSpec == CodecInit /\ [][CodecNext]_vars

\* ------------------------------------------------------------------------
\* Views of the session history used by the properties
\* ------------------------------------------------------------------------
IsKeyEventEntry(e) == e.kind = "KeyEvent"
IsPingEntry(e) == e.kind = "Ping"
IsHandshakeEntry(e) == e.kind = "Handshake"
IsKexEntry(e) == e.via = "kex"
ReadWhileActive(k) == k.state = "Active"

\* the KeyEvent packets the input loop wrote, in order
SentKeyEvents == SelectSeq(srvLog, IsKeyEventEntry)
\* the keys the input loop read while Active, in order
ActiveKeys == SelectSeq(keyLog, ReadWhileActive)
\* the events carried by the KeyEvent packets written, in order
SentEvents == LET entries == SentKeyEvents
              IN  [i \in 1..Len(entries) |-> DecodeKeyEvent(entries[i].payload).msg]

SamePacket(entry, p) == entry.kind = p.kind /\ entry.payload = p.payload

\* ------------------------------------------------------------------------
\* Properties
\* ------------------------------------------------------------------------

\* C1 (as claimed): with refresh_latency = Some(N), whenever the input loop
\* is between two iterations after K keys were read, it has run exactly
\* floor(K / N) latency probes.
C1_LatencyCadence ==
    (srvConfig.refresh_latency.some /\ srvPc = "loop")
        => probes = Len(keyLog) \div srvConfig.refresh_latency.n

\* C2 (as claimed): with refresh_latency = None the input side never writes
\* a Ping packet after the handshake.
C2_NoPingWhenDisabled ==
    ~srvConfig.refresh_latency.some
        => \A i \in 1..Len(srvLog) : ~IsPingEntry(srvLog[i])

\* C3: the first key of a session is read while Idle, moves the state to
\* Active and is not sent; every key read while Active is sent as exactly one
\* KeyEvent packet carrying the converted key, in the order the keys were read.
C3_WakeKeyDiscarded ==
    /\ \A i \in 1..Len(keyLog) : (keyLog[i].state = "Idle") <=> (i = 1)
    /\ (InLoop /\ Len(keyLog) >= 1) => srvState = "Active"
    /\ Len(SentKeyEvents) <= Len(ActiveKeys)
    /\ Len(ActiveKeys) - Len(SentKeyEvents) <= 1
    /\ InLoop => Len(SentKeyEvents) = Len(ActiveKeys)
    /\ \A i \in 1..Len(SentKeyEvents) :
          /\ SamePacket(SentKeyEvents[i],
                        KeyEventPacket(KeyEventFromKey(ActiveKeys[i].key)))
          /\ SentEvents[i] = KeyEventFromKey(ActiveKeys[i].key)

\* C3 witness: a wake key and three more keys were read, three packets sent
C3_Witness ==
    /\ InLoop
    /\ Len(keyLog) = 4
    /\ Len(SentKeyEvents) = 3
    /\ keyLog[1].key = TermKey("Char", 97)

\* C4: with update_screen the history never holds more than 20 entries, and
\* while the loop runs it holds exactly the last min(20, n) of the n events
\* sent, in send order.
C4_HistoryBound ==
    srvConfig.update_screen =>
        /\ Len(history) <= HistoryCap
        /\ InLoop =>
             LET n == Len(SentEvents)
                 m == IF n < HistoryCap THEN n ELSE HistoryCap
             IN  history = SubSeq(SentEvents, n - m + 1, n)

\* C4 witness: 21 events were sent, the oldest was evicted
C4_Witness ==
    /\ srvConfig.update_screen
    /\ InLoop
    /\ Len(SentEvents) = HistoryCap + 1
    /\ Len(history) = HistoryCap
    /\ history[1] = SentEvents[2]
    /\ history[1] # SentEvents[1]

\* C5: whenever the server is at accept, and whenever it starts the handshake
\* of a connection, its remote is None and its state is Idle.
C5_AcceptIsClean ==
    srvPc \in {"accept", "handshake"}
        => (srvRemote = NoRemote /\ srvState = "Idle")

\* C5 witness: the server is back at accept after a session in which remote
\* was set and the state was Active
C5_Witness ==
    /\ srvPc = "accept"
    /\ ended.n >= 1
    /\ ended.remoteSome
    /\ ended.state = "Active"

\* C6 (as claimed): no per-session error makes serve return.
C6_ServeNeverReturns == srvPc # "returned"

\* the packet the server's handshake received, decoded
ServerGotRequest == Len(srvRecvd) >= 1
ReceivedRequest == DecodeHandshakeRequest(srvRecvd[1].payload)
ServerResponded == \E i \in 1..Len(srvLog) : IsHandshakeEntry(srvLog[i])
\* the errors of the `secret != token` branch: the bail, or its context on a
\* failed shutdown call
InvalidSecretErrors == {"Invalid secret", "Failed to close socket (Invalid secret)"}

\* C7: plain-mode server: on a request whose token differs from the session
\* secret no HandshakeResponse is written, shutdown is called, the handshake
\* fails naming the invalid secret and remote stays None; a HandshakeResponse
\* is written and remote set only for a token equal to the secret.
C7_InvalidSecret ==
    ~srvConfig.secure =>
        /\ (ServerGotRequest /\ ReceivedRequest.ok
              /\ ReceivedRequest.msg.token # skey)
            => /\ ~ServerResponded
               /\ srvRemote = NoRemote
               /\ srvShutdown
               /\ srvClosed
               /\ srvPc = "returned"
               /\ srvErr \in InvalidSecretErrors
        /\ (ServerResponded \/ srvRemote.some)
            => /\ ServerGotRequest
               /\ ReceivedRequest.ok
               /\ ReceivedRequest.msg.token = skey
        /\ srvRemote.some => ServerResponded

\* C7 witness: a well-formed token of the right length that is not the secret
C7_Witness ==
    /\ ~srvConfig.secure
    /\ ServerGotRequest
    /\ ReceivedRequest.ok
    /\ ReceivedRequest.msg.token = WrongSecret
    /\ srvErr = "Invalid secret"
    /\ s2c = <<>>

\* a written packet is sealed: it went through the secure transport and its
\* bytes after the length prefix open under the logged send key to the
\* payload followed by the kind byte
SealedEntry(e) ==
    /\ e.via = "kex"
    /\ e.key # <<>>
    /\ e.frame # TcpSendPacket(RawPacket(e.kind, e.payload))
    /\ Open(e.key, Drop(e.frame, 4)) =
          [ok |-> TRUE, pt |-> e.payload \o <<KindToU8(e.kind)>>]

\* C8: in secure mode every packet a peer writes after its Handshake packet
\* is sealed under that peer's send key by the secure transport; the plain
\* transport writes the Handshake packet only.
C8_SealedAfterHandshake ==
    /\ srvConfig.secure =>
          /\ \A i \in 1..Len(srvLog) :
                IF i = 1 THEN IsHandshakeEntry(srvLog[i]) /\ srvLog[i].via = "tcp"
                ELSE ~IsHandshakeEntry(srvLog[i]) /\ SealedEntry(srvLog[i])
          /\ InLoop => (srvTr.kind = "kex" /\
                        \A i \in 2..Len(srvLog) : srvLog[i].key = srvTr.keys.tx)
    /\ cliConfig.secure =>
          /\ \A i \in 1..Len(cliLog) :
                IF i = 1 THEN IsHandshakeEntry(cliLog[i]) /\ cliLog[i].via = "tcp"
                ELSE ~IsHandshakeEntry(cliLog[i]) /\ SealedEntry(cliLog[i])
          /\ cliPc = "listen" => (cliTr.kind = "kex" /\
                        \A i \in 2..Len(cliLog) : cliLog[i].key = cliTr.keys.tx)

\* C8 witness: a secure session in which the server wrote a Ping and two
\* KeyEvents and the client a Ping reply
C8_Witness ==
    /\ srvConfig.secure
    /\ cliConfig.secure
    /\ Len(SentKeyEvents) >= 2
    /\ Len(cliLog) >= 2
    /\ IsPingEntry(cliLog[2])

\* C9 (as claimed): a frame that does not authenticate never aborts the
\* receiving process.
C9_DecryptErrorReturned ==
    /\ ~(srvPc = "aborted" /\ srvErr = CryptoPanic)
    /\ ~(cliPc = "aborted" /\ cliErr = CryptoPanic)

\* the packets written and received through the secure transports
SrvKexSent == SelectSeq(srvLog, IsKexEntry)
CliKexSent == SelectSeq(cliLog, IsKexEntry)
SrvKexRecvd == SelectSeq(srvRecvd, IsKexEntry)
CliKexRecvd == SelectSeq(cliRecvd, IsKexEntry)

\* the frames of chan that are still as the sender wrote them are returned by
\* the receiver's secure transport as the packets that were sent
DeliversAsSent(chan, log, keys) ==
    \A j \in 1..Len(chan) :
        LET e == log[Len(log) - Len(chan) + j]
        IN  (e.via = "kex" /\ chan[j] = e.frame)
                => KexRecvPacket(keys, chan[j]) = RecvOk(RawPacket(e.kind, e.payload))

\* C10: the two secure transports of a session hold mirrored keys, and
\* every packet one of them sends the other receives with the same kind and
\* body, in the order sent.
C10_SecureRoundTrip ==
    /\ (srvTr.kind = "kex" /\ cliTr.kind = "kex")
          => /\ srvTr.keys.tx = cliTr.keys.rx
             /\ srvTr.keys.rx = cliTr.keys.tx
             /\ srvTr.keys.tx # srvTr.keys.rx
    /\ Len(CliKexRecvd) <= Len(SrvKexSent)
    /\ \A i \in 1..Len(CliKexRecvd) :
          SamePacket(CliKexRecvd[i], SrvKexSent[i])
    /\ Len(SrvKexRecvd) <= Len(CliKexSent)
    /\ \A i \in 1..Len(SrvKexRecvd) :
          SamePacket(SrvKexRecvd[i], CliKexSent[i])
    /\ cliTr.kind = "kex" => DeliversAsSent(s2c, srvLog, cliTr.keys)
    /\ srvTr.kind = "kex" => DeliversAsSent(c2s, cliLog, srvTr.keys)

\* C10 witness: the client received a Ping and two KeyEvents, the server a
\* Ping reply with an 8-byte body, all through the secure transports
C10_Witness ==
    /\ Len(CliKexRecvd) >= 3
    /\ CliKexRecvd[1].kind = "Ping"
    /\ CliKexRecvd[3].kind = "KeyEvent"
    /\ Len(SrvKexRecvd) >= 1
    /\ SrvKexRecvd[1].kind = "Ping"
    /\ Len(SrvKexRecvd[1].payload) = PingBodyLen
    /\ Len(injected) >= 1

\* ------------------------------------------------------------------------
\* Framing properties, checked under FramerSpec
\* ------------------------------------------------------------------------
\* the bytes of the chunks in flight, in the order written
RECURSIVE FlightBytes(_)
FlightBytes(f) == IF f = <<>> THEN <<>> ELSE Head(f).frame \o FlightBytes(Tail(f))

\* the kind byte the spec gives each packet kind
WireKindByte(kind) ==
    CASE kind = "Handshake" -> 0 [] kind = "KeyEvent" -> 1
      [] kind = "Ping" -> 2 [] OTHER -> 255

\* C11: recv_packet of the plain and of the secure transport, on a stream
\* whose 4-byte big-endian prefix is 0, returns the InvalidInput error with no
\* packet and takes only the 4 prefix bytes from the stream; on a prefix
\* L >= 1 with L bytes behind it, it takes exactly those L bytes more.
C11_ZeroLengthRejected ==
    (frRes.valid /\ Len(frRes.before) >= 4) =>
        LET L == U32FromBE(Take(frRes.before, 4))
            used == Len(frRes.before) - Len(frRes.after)
        IN  /\ L = 0 => /\ frRes.res.status = "err"
                        /\ frRes.res.err = ZeroLengthError
                        /\ frRes.res.pkt = NoPacket
                        /\ used = 4
                        /\ frRes.after = Drop(frRes.before, 4)
            /\ (L >= 1 /\ Len(frRes.before) >= 4 + L)
                  => /\ used = 4 + L
                     /\ frRes.after = Drop(frRes.before, 4 + L)
                     /\ frRes.res.err # ZeroLengthError
            /\ (L >= 1 /\ Len(frRes.before) < 4 + L)
                  => /\ frRes.res.status = "err"
                     /\ frRes.res.err = "UnexpectedEof"

\* C11 witness: the secure transport read a zero prefix and left the frame
\* written behind it unread
C11_Witness ==
    /\ frSecure
    /\ frRes.valid
    /\ Len(frRes.before) >= 9
    /\ Take(frRes.before, 4) = <<0, 0, 0, 0>>
    /\ Len(frRes.after) >= 5
    /\ frRes.res.status = "err"

\* C12: plain transport: recv_packet on the bytes written by
\* send_packet({kind, body}) returns {kind, body}, for every kind and every
\* body, the empty one included; the kind byte is the last byte of the frame,
\* 0, 1, 2 for Handshake, KeyEvent, Ping and 255 for Unknown, and a last byte
\* outside 0..2 is received as Unknown.
C12_PlainRoundTrip ==
    ~frSecure =>
        /\ \A i \in 1..Len(frFlight) :
              frFlight[i].sent
                  => Last(frFlight[i].frame) = WireKindByte(frFlight[i].pkt.kind)
        /\ (frRes.valid /\ frRes.head.sent)
              => /\ frRes.res = RecvOk(frRes.head.pkt)
                 /\ Last(frRes.head.frame) = WireKindByte(frRes.head.pkt.kind)
        /\ (frRes.valid /\ ~frRes.head.sent /\ frRes.res.status = "ok")
              => /\ frRes.res.pkt.payload
                       = SubSeq(frRes.head.frame, 5, Len(frRes.head.frame) - 1)
                 /\ frRes.res.pkt.kind
                       = (IF Last(frRes.head.frame) \in 0..2
                          THEN CHOOSE k \in {"Handshake", "KeyEvent", "Ping"} :
                                   WireKindByte(k) = Last(frRes.head.frame)
                          ELSE "Unknown")

\* C12 witness: a Ping with an empty body came back from the plain transport
\* after a frame with kind byte 99 was received as Unknown
C12_Witness ==
    /\ ~frSecure
    /\ frRes.valid
    /\ frRes.head.sent
    /\ frRes.head.pkt = RawPacket("Ping", <<>>)
    /\ frRes.res = RecvOk(RawPacket("Ping", <<>>))
    /\ frCount = MaxFrames

\* C13: the u32 big-endian prefix of every packet send_packet writes is the
\* number of bytes written after it for that packet: body.len() + 1 in plain
\* mode (body, then the kind byte), the ciphertext length in secure mode; the
\* reader's recv_packet calls cut the stream where the writer's send_packet
\* calls did.
C13_LengthPrefix ==
    /\ \A i \in 1..Len(frFlight) :
          LET e == frFlight[i]
              n == U32FromBE(Take(e.frame, 4))
          IN  e.sent =>
                /\ n = Len(e.frame) - 4
                /\ n >= 1
                /\ ~frSecure => /\ n = Len(e.pkt.payload) + 1
                                /\ Drop(e.frame, 4)
                                     = e.pkt.payload \o <<WireKindByte(e.pkt.kind)>>
                /\ frSecure => /\ n = Len(e.pkt.payload) + 1 + 3
                               /\ Open(FrReader.keys.rx, Drop(e.frame, 4)).pt
                                     = e.pkt.payload \o <<WireKindByte(e.pkt.kind)>>
    /\ frWire = FlightBytes(frFlight)
    /\ (frRes.valid /\ frRes.head.sent)
          => /\ frRes.before = frRes.head.frame \o frRes.after
             /\ frRes.res = RecvOk(frRes.head.pkt)

\* C13 witness: of two sealed packets written back to back the first was
\* received and the second is what is left on the stream
C13_Witness ==
    /\ frSecure
    /\ frRes.valid
    /\ frRes.head.sent
    /\ frRes.res.status = "ok"
    /\ Len(frFlight) = 1
    /\ frFlight[1].sent
    /\ frWire = frFlight[1].frame
    /\ frFlight[1].pkt # frRes.head.pkt

\* ------------------------------------------------------------------------
\* Steady state: who sends what
\* ------------------------------------------------------------------------
\* the Ping packets each side wrote and received, in order
SrvPingsSent == SelectSeq(srvLog, IsPingEntry)
CliPingsSent == SelectSeq(cliLog, IsPingEntry)
SrvPingsRecvd == SelectSeq(srvRecvd, IsPingEntry)
CliPingsRecvd == SelectSeq(cliRecvd, IsPingEntry)
HasTimestamp(e) == Len(e.payload) = PingBodyLen

\* C14 (as claimed): the server answers every Ping it received with one Ping
\* of its own that carries an 8-byte timestamp.
C14_ServerPingReply ==
    srvPc = "loop"
        => Len(SelectSeq(SrvPingsSent, HasTimestamp)) = Len(SrvPingsRecvd)

\* C14 (amended): the client answers every Ping it received with exactly one
\* Ping, written before it takes the next packet, whose body is 8 bytes, its
\* clock reading big-endian; that reading lies between the start and the end
\* the server's measure_latency took around the round trip, and is the value
\* measure_latency decodes when the reply was not modified in flight.
C14_ClientPingReply ==
    /\ Len(CliPingsSent) <= Len(CliPingsRecvd)
    /\ Len(CliPingsRecvd) - Len(CliPingsSent) <= 1
    /\ cliPc = "listen" => Len(CliPingsSent) = Len(CliPingsRecvd)
    /\ \A i \in 1..Len(CliPingsSent) :
          /\ Len(CliPingsSent[i].payload) = 8
          /\ I64FromBE(CliPingsSent[i].payload).hi = 0
          /\ i > 1 => I64FromBE(CliPingsSent[i - 1].payload).lo
                         < I64FromBE(CliPingsSent[i].payload).lo
    /\ Len(measured) <= Len(CliPingsSent)
    /\ \A i \in 1..Len(measured) :
          LET mid == I64FromBE(CliPingsSent[i].payload)
          IN  /\ measured[i].start <= mid.lo
              /\ mid.lo <= measured[i].end
              /\ (tampers = 0 \/ srvTr.kind = "kex") => measured[i].middle = mid

\* C14 witness: two round trips completed, the second from inside the loop
C14_Witness ==
    /\ Len(measured) = 2
    /\ probes = 1
    /\ cliPc = "listen"
    /\ srvPc = "loop"
    /\ measured[2].start < measured[2].middle.lo
    /\ measured[2].middle.lo < measured[2].end

\* a step in which the server, past its handshake, is handed a Handshake
\* packet by recv_packet / the client, in listen_loop, is handed one
SrvTakesHandshake ==
    /\ srvPc \in {"wait_init", "wait_loop"}
    /\ Len(srvRecvd') = Len(srvRecvd) + 1
    /\ Last(srvRecvd').kind = "Handshake"
CliTakesHandshake ==
    /\ cliPc = "listen"
    /\ Len(cliRecvd') = Len(cliRecvd) + 1
    /\ Last(cliRecvd').kind = "Handshake"

\* C15 (as claimed): a Handshake packet the server receives in steady state
\* leaves its remote, state and transport unchanged, makes it send nothing,
\* and the server goes on with the session.
C15_ServerIgnoresHandshake ==
    [][SrvTakesHandshake =>
          /\ srvRemote' = srvRemote
          /\ srvState' = srvState
          /\ srvTr' = srvTr
          /\ srvLog' = srvLog
          /\ srvPc' \in {"loop", "measure_loop", "wait_init", "wait_loop"}
          /\ ~srvClosed']_vars

\* C15 (amended): a Handshake packet the client receives in steady state is
\* ignored: handling it leaves remote, state and the transport unchanged,
\* sends nothing, injects and prints nothing, and listen_loop goes on to the
\* next packet.
C15_ClientIgnoresHandshake ==
    [][CliTakesHandshake =>
          /\ cliRemote' = cliRemote
          /\ cliState' = cliState
          /\ cliTr' = cliTr
          /\ cliLog' = cliLog
          /\ c2s' = c2s
          /\ injected' = injected
          /\ stdout' = stdout
          /\ warnings' = warnings
          /\ cliErr' = cliErr
          /\ cliPc' = "listen"
          /\ ~cliClosed']_vars

\* C15 witness: the client was handed a Handshake packet in steady state and
\* injected the key of the KeyEvent packet that came after it
C15_Witness ==
    /\ cliPc = "listen"
    /\ Len(cliRecvd) >= 4
    /\ cliRecvd[Len(cliRecvd) - 1].kind = "Handshake"
    /\ Last(cliRecvd).kind = "KeyEvent"
    /\ Len(injected) >= 1
    /\ cliRemote.some

\* C16 (as claimed): every packet the server writes is a HandshakeResponse or
\* a Ping, and the server has never written more packets than it received.
C16_ServerOnlyResponds ==
    /\ \A i \in 1..Len(srvLog) :
          IsHandshakeEntry(srvLog[i]) \/ IsPingEntry(srvLog[i])
    /\ Len(srvLog) <= Len(srvRecvd)

\* C16 (amended): the client never sends on its own after the
\* HandshakeRequest that opens the session: its first packet is that request,
\* every later one is a Ping reply answering a Ping it received, so the
\* packets it wrote after the request never outnumber the Pings it received,
\* nor the packets it wrote the packets it received.
C16_ClientOnlyResponds ==
    /\ \A i \in 1..Len(cliLog) :
          IF i = 1 THEN IsHandshakeEntry(cliLog[i])
          ELSE IsPingEntry(cliLog[i]) /\ HasTimestamp(cliLog[i])
    /\ Len(cliLog) <= 1 + Len(CliPingsRecvd)
    /\ Len(cliLog) >= 2 => Len(cliLog) <= Len(cliRecvd)
    /\ Len(cliLog) >= 1 => cliToken.typed

\* C16 witness: the client received the response, two Pings and two
\* KeyEvents and wrote its request and two replies
C16_Witness ==
    /\ Len(cliLog) = 3
    /\ Len(CliPingsRecvd) = 2
    /\ Len(SelectSeq(cliRecvd, IsKeyEventEntry)) >= 2
    /\ Len(cliRecvd) >= 5

\* the packets the client was handed in steady state, after the
\* HandshakeResponse
CliSteadyRecvd == IF cliRecvd = <<>> THEN <<>> ELSE Tail(cliRecvd)
\* the events of the KeyEvent packets among them, in order
IsDecodedKeyEvent(e) == e.kind = "KeyEvent" /\ DecodeKeyEvent(e.payload).ok
HasInjectorKey(ev) == EnigoKey(ev).status = "ok"
CliEventEntries == SelectSeq(CliSteadyRecvd, IsDecodedKeyEvent)
CliEvents == LET entries == CliEventEntries
             IN  [i \in 1..Len(entries) |-> DecodeKeyEvent(entries[i].payload).msg]
CliClickable == SelectSeq(CliEvents, HasInjectorKey)
IsUnknownEntry(e) == e.kind = "Unknown"

HandshakeOnlyFirst(log) ==
    \A i \in 1..Len(log) :
        /\ IsHandshakeEntry(log[i]) <=> i = 1
        /\ i = 1 => log[i].via = "tcp"
        /\ log[i].via = "tcp"
              => (Last(log[i].frame) = WireKindByte("Handshake") <=> i = 1)

\* C18: in a session each direction carries one Handshake packet, as its
\* first packet: the first packet the client wrote is its HandshakeRequest
\* and no later one is a Handshake; the same holds of the server, which writes
\* its HandshakeResponse only after the client wrote the request and the
\* server received it; a side that is past its handshake has written exactly
\* one Handshake packet.
C18_OneHandshakeFirst ==
    /\ HandshakeOnlyFirst(cliLog)
    /\ HandshakeOnlyFirst(srvLog)
    /\ Len(srvLog) >= 1
          => /\ Len(cliLog) >= 1
             /\ Len(srvRecvd) >= 1
             /\ DecodeHandshakeRequest(srvRecvd[1].payload).ok
    /\ cliPc \in {"hs_wait", "listen"}
          => Len(SelectSeq(cliLog, IsHandshakeEntry)) = 1
    /\ srvPc \in {"measure_init", "wait_init", "loop", "measure_loop", "wait_loop"}
          => Len(SelectSeq(srvLog, IsHandshakeEntry)) = 1

\* C18 witness: a session in which both sides went on writing after their
\* handshake: the server wrote a probe, a KeyEvent and another probe, the
\* client two Ping replies
C18_Witness ==
    /\ Len(srvLog) >= 4
    /\ Len(cliLog) >= 3
    /\ Len(SelectSeq(srvLog, IsKeyEventEntry)) >= 1
    /\ Len(SelectSeq(srvLog, IsPingEntry)) >= 2
    /\ Len(SelectSeq(srvLog, IsHandshakeEntry)) = 1
    /\ Len(SelectSeq(cliLog, IsHandshakeEntry)) = 1

\* the errors connect_to gives for a token it does not take
TokenErrors == {"Invalid token", "Failed to parse token"}
TokenSizeError == "Received an incorrectly sized key"

\* C19: the client writes a packet only after the typed token decoded to
\* exactly 32 bytes: when the token is not base64 or decodes to another
\* length, connect_to ends with an error and nothing was written to the
\* socket; a token whose base64 decoding has 32 bytes is taken, and those 32
\* bytes are the secret the client goes on with.
C19_TokenBeforeSend ==
    LET d == Base64Decode(cliToken.inp)
        valid == d.ok /\ Len(d.bytes) = KeyLen
    IN  /\ cliLog # <<>> => cliToken.typed /\ valid
        /\ cliPc \in {"hs_wait", "listen"} => cliToken.typed /\ valid
        /\ (cliToken.typed /\ ~valid)
              => /\ cliLog = <<>>
                 /\ c2s = <<>>
                 /\ srvRecvd = <<>>
                 /\ cliSkey = <<>>
                 /\ cliPc = "done"
                 /\ cliErr \in TokenErrors \cup {TokenSizeError}
                 /\ cliErr = "Invalid token" <=> Len(cliToken.inp) >= TokenMaxLen
                 /\ cliErr = "Failed to parse token" => ~d.ok
                 /\ cliErr = TokenSizeError => d.ok
        /\ (cliToken.typed /\ valid)
              => /\ cliSkey = d.bytes
                 /\ cliErr \notin TokenErrors
                 /\ cliErr = TokenSizeError => cliLog # <<>>
                 /\ cliLog = <<>> => cliErr = "BrokenPipe"

\* C19 witness: the operator typed the base64 text of 33 bytes; the client
\* ended with the size error and wrote nothing
C19_Witness ==
    /\ cliToken.typed
    /\ Base64Decode(cliToken.inp).ok
    /\ Len(Base64Decode(cliToken.inp).bytes) = KeyLen + 1
    /\ cliPc = "done"
    /\ cliErr = TokenSizeError
    /\ cliLog = <<>>
    /\ c2s = <<>>

\* C20: measure_latency writes one Ping with an empty body and then takes
\* one packet: while it waits, the last packet the server wrote is that Ping
\* and the server has received as many packets as it has written probes;
\* when the packet it takes is not a Ping, the session is over with the
\* error, and the server neither received another packet nor wrote another
\* probe in it.
C20_OneProbeOneReply ==
    LET pings == SrvPingsSent
    IN  /\ \A i \in 1..Len(pings) : pings[i].payload = <<>>
        /\ Len(srvRecvd) <= 1 + Len(pings)
        /\ srvPc \in {"wait_init", "wait_loop"}
              => /\ IsPingEntry(Last(srvLog))
                 /\ Len(srvRecvd) = Len(pings)
        /\ srvPc \in {"loop", "measure_loop"} => Len(srvRecvd) = 1 + Len(pings)
        /\ \A i \in 2..Len(srvRecvd) :
              ~IsPingEntry(srvRecvd[i])
                 => /\ i = Len(srvRecvd)
                    /\ Len(pings) = i - 1
                    /\ IsPingEntry(Last(srvLog))
                    /\ srvPc = "accept"
                    /\ srvClosed
                    /\ srvErr = ExpectedPingError
                    /\ ended.err = ExpectedPingError
                    /\ Len(measured) = i - 2

\* C20 witness: the probe was answered by a packet whose kind byte is not
\* that of a Ping; the session ended with the error after one probe and one
\* packet received for it
C20_Witness ==
    /\ srvPc = "accept"
    /\ srvErr = ExpectedPingError
    /\ ended.err = ExpectedPingError
    /\ Len(srvRecvd) = 2
    /\ srvRecvd[2].kind = "Unknown"
    /\ Len(SrvPingsSent) = 1
    /\ Len(CliPingsSent) = 1

\* probes written whose reply the input side has not taken yet: every packet
\* the server takes after the HandshakeRequest is taken by measure_latency
SrvTaken == IF srvRecvd = <<>> THEN 0 ELSE Len(srvRecvd) - 1
Outstanding == Len(SrvPingsSent) - SrvTaken
SrvWaitsForReply == srvPc \in {"wait_init", "wait_loop"}
\* this step wrote exactly one packet, of this kind
SrvWrote(kind) ==
    /\ Len(srvLog') = Len(srvLog) + 1
    /\ SubSeq(srvLog', 1, Len(srvLog)) = srvLog
    /\ Last(srvLog').kind = kind

\* C21: a Ping round trip is synchronous and completes between two
\* keystrokes: from the write of a probe to the receipt of its reply the
\* input side reads no key and writes no packet, so at most one probe is
\* outstanding, and one is outstanding only while the input side waits for
\* it (or the session ended there); a probe triggered by a key is written
\* after the KeyEvent packet of that key and before the next key is read.
C21_SynchronousPing ==
    [][/\ SrvWaitsForReply
            => /\ reads' = reads
               /\ keyLog' = keyLog
               /\ srvLog' = srvLog
               /\ Outstanding = 1
       /\ srvPc = "measure_loop"
            => /\ reads' = reads
               /\ keyLog' = keyLog
               /\ Outstanding = 0
               /\ srvLog' = srvLog \/ SrvWrote("Ping")
               /\ SrvWrote("Ping") => srvPc' = "wait_loop"
       /\ (srvPc = "loop" /\ sessions' = sessions)
            => /\ Outstanding = 0
               /\ srvLog' = srvLog \/ SrvWrote("KeyEvent")
               /\ (srvPc' = "measure_loop" /\ Len(keyLog') > Len(keyLog)
                      /\ Last(keyLog').state = "Active")
                     => /\ SrvWrote("KeyEvent")
                        /\ DecodeKeyEvent(Last(srvLog').payload).msg
                              = KeyEventFromKey(Last(keyLog').key)
       /\ Outstanding' \in {0, 1}
      ]_vars

\* C21 witness: a probe triggered inside the input loop by a key that was
\* sent has completed: the server's last two packets are that KeyEvent and
\* the Ping, the reply was taken and the loop is ready for the next key
C21_Witness ==
    /\ srvPc = "loop"
    /\ probes >= 1
    /\ Len(srvLog) >= 4
    /\ IsPingEntry(Last(srvLog))
    /\ IsKeyEventEntry(srvLog[Len(srvLog) - 1])
    /\ Len(measured) = 2
    /\ Outstanding = 0
    /\ reads < ReadBudget

\* this step handed a packet of this kind to handle_packet
CliHandles(kind) ==
    /\ cliPc = "listen"
    /\ Len(cliRecvd') = Len(cliRecvd) + 1
    /\ Last(cliRecvd').kind = kind

CliHandledEvent == DecodeKeyEvent(Last(cliRecvd').payload)
\* this step handled a KeyEvent packet whose kind has no injector key, in
\* injection mode
CliHandlesUnmapped ==
    /\ CliHandles("KeyEvent")
    /\ ~cliConfig.cold_run
    /\ CliHandledEvent.ok
    /\ EnigoKey(CliHandledEvent.msg).status = "err"
\* the keys of the received KeyEvent packets that have an injector key
LsClickable ==
    LET entries == SelectSeq(cliRecvd, IsDecodedKeyEvent)
        evs == [i \in 1..Len(entries) |-> DecodeKeyEvent(entries[i].payload).msg]
        ok == SelectSeq(evs, HasInjectorKey)
    IN  [i \in 1..Len(ok) |-> EnigoKey(ok[i]).key]

\* C23: in the steady-state receive loop a packet of Unknown kind, and a
\* KeyEvent whose kind has no injector key, gives one runtime warning and
\* nothing else: remote, mode, transport and the connection are unchanged,
\* nothing is written, clicked or printed, and the loop goes on; the keys
\* clicked are those of all the mapped KeyEvent packets received, also of
\* those that came after a warning.
C23_WarningsNonFatal ==
    [][/\ (cliRemote.some /\ (CliHandles("Unknown") \/ CliHandlesUnmapped))
            => /\ warnings' = warnings + 1
               /\ cliPc' = "listen"
               /\ cliErr' = cliErr
               /\ cliClosed' = cliClosed
               /\ cliRemote' = cliRemote /\ cliTr' = cliTr /\ cliState' = cliState
               /\ cliLog' = cliLog /\ c2s' = c2s
               /\ injected' = injected /\ stdout' = stdout
       /\ (cliRemote.some /\ ~cliConfig.cold_run) => injected = LsClickable
      ]_vars

\* C23 witness: an Unknown packet and an INSERT event were warned about and
\* the letter that came after them was clicked
C23_Witness ==
    /\ cliRemote.some
    /\ ~cliConfig.cold_run
    /\ cliPc = "listen"
    /\ warnings = 2
    /\ Len(cliRecvd) = 3
    /\ cliRecvd[1].kind = "Unknown"
    /\ cliRecvd[2].kind = "KeyEvent"
    /\ DecodeKeyEvent(cliRecvd[2].payload).msg.kind = "INSERT"
    /\ injected = <<<<"Layout", 97>>>>

\* the kinds the spec lists for the KeyEvent to injected-key mapping
SpecMappedKinds == {"ENTER", "UP", "DOWN", "LEFT", "RIGHT", "ESC", "BACKSPACE",
                    "HOME", "END", "TAB", "DELETE", "CHAR", "PAGEUP",
                    "PAGEDOWN", "SHIFT", "META"}

\* C24: the KeyEvent to injected-key conversion gives a key for every kind
\* of the listed subset and for FUNCTION, and the warning only for UNKNOWN
\* and INSERT (stated for events whose key is a Unicode scalar value when
\* the kind is CHAR).
C24_MappingCoversFunction ==
    (kcPc = "clicked" /\ (kcEvent.kind = "CHAR" => IsChar(kcEvent.key)))
        => /\ kcEvent.kind \in SpecMappedKinds \cup {"FUNCTION"}
                 => kcOut.status = "ok"
           /\ kcEvent.kind \in {"UNKNOWN", "INSERT"} => kcOut.status = "err"
           /\ kcOut.status = "err" => kcEvent.kind \in {"UNKNOWN", "INSERT"}

\* the packet the server's secure handshake is about to take, and the faults
\* it can find in it
SrvRequest == RecvFrom(srvTr, c2s, cliClosed)
SrvRequestMsg == DecodeHandshakeRequest(SrvRequest.pkt.payload)
SrvRequestKey == Open(skey, SrvRequestMsg.msg.pkey)
SrvRequestFault ==
    IF ~SrvRequestMsg.ok THEN "Failed to decode HandshakeRequest message"
    ELSE IF ~SrvRequestKey.ok
    THEN "Could not open client public key with session secret"
    ELSE IF Len(SrvRequestKey.pt) # KeyLen THEN "Received an incorrectly sized key"
    ELSE ""
\* the same for the client and the response
CliResponse == RecvFrom(cliTr, s2c, srvClosed)
CliResponseMsg == DecodeHandshakeResponse(CliResponse.pkt.payload)
CliCannotOpen ==
    /\ CliResponse.status = "ok"
    /\ CliResponseMsg.ok
    /\ ~Open(cliSkey, CliResponseMsg.msg.pkey).ok
SteadyPcs == {"measure_init", "wait_init", "loop", "measure_loop", "wait_loop"}

\* C25: a fault found in the secure handshake is fatal to the connection on
\* the side that finds it: a server that cannot decode the HandshakeRequest,
\* cannot open its pkey under the session secret, or opens a key that is not
\* 32 bytes, ends with the error of that fault, writes no HandshakeResponse,
\* leaves remote None and keeps the plain transport (no session keys); a
\* client that cannot open the server's pkey ends with its error, keeps the
\* plain transport and does not reach listen_loop.
C25_SecFaultFatal ==
    [][/\ (srvPc = "handshake" /\ Len(srvRecvd') = Len(srvRecvd) + 1
              /\ srvConfig.secure /\ SrvRequestFault # "")
            => /\ srvErr' = SrvRequestFault
               /\ srvPc' \notin SteadyPcs
               /\ srvClosed'
               /\ srvLog' = <<>> /\ s2c' = s2c
               /\ ~srvRemote'.some
               /\ srvTr' = TcpTransport
       /\ (cliPc = "hs_wait" /\ Len(cliRecvd') = Len(cliRecvd) + 1
              /\ cliConfig.secure /\ CliCannotOpen)
            => /\ cliErr' = "Could not open server public key with session secret"
               /\ cliPc' = "done"
               /\ cliClosed'
               /\ cliTr' = TcpTransport
               /\ cliLog' = cliLog
       /\ (cliPc = "done" /\ sessions' = sessions) => cliPc' = "done"
      ]_vars

\* C25 witness: the server opened a client key of 31 bytes and ended the
\* connection with nothing written
C25_Witness ==
    /\ srvConfig.secure
    /\ srvErr = "Received an incorrectly sized key"
    /\ srvPc \notin SteadyPcs
    /\ srvClosed
    /\ Len(srvRecvd) = 1
    /\ Len(Open(skey, DecodeHandshakeRequest(srvRecvd[1].payload).msg.pkey).pt)
          = KeyLen - 1
    /\ srvLog = <<>>
    /\ ~srvRemote.some

\* the bytes `part` occur in `bytes` as a run
ContainsRun(bytes, part) ==
    \E i \in 1..(Len(bytes) - Len(part) + 1) :
        SubSeq(bytes, i, i + Len(part) - 1) = part

\* C26: the session secret is not on the wire in secure mode: a
\* HandshakeRequest written in secure mode has an empty token and a pkey that
\* opens under the secret, and its frame does not hold the secret; one
\* written in plain mode has the 32 secret bytes as token and an empty pkey;
\* the HandshakeResponse has a pkey exactly in secure mode, sealed, and its
\* frame does not hold the secret.
C26_SecretOffWire ==
    /\ Len(cliLog) >= 1
          => LET req == DecodeHandshakeRequest(cliLog[1].payload).msg
             IN  /\ Len(cliSkey) = KeyLen
                 /\ cliConfig.secure
                       => /\ req.token = <<>>
                          /\ req.pkey # <<>>
                          /\ Open(cliSkey, req.pkey).ok
                          /\ \A i \in 1..Len(cliLog) :
                                ~ContainsRun(cliLog[i].frame, cliSkey)
                 /\ ~cliConfig.secure
                       => /\ req.token = cliSkey
                          /\ req.pkey = <<>>
    /\ Len(srvLog) >= 1
          => LET resp == DecodeHandshakeResponse(srvLog[1].payload).msg
             IN  /\ resp.pkey # <<>> <=> srvConfig.secure
                 /\ srvConfig.secure
                       => /\ Open(skey, resp.pkey).ok
                          /\ \A i \in 1..Len(srvLog) :
                                ~ContainsRun(srvLog[i].frame, skey)

\* C26 witness: a secure session in which both Handshake packets were
\* written and the server went on to write sealed packets
C26_Witness ==
    /\ cliConfig.secure
    /\ srvConfig.secure
    /\ Len(cliLog) >= 1
    /\ Len(srvLog) >= 2
    /\ DecodeHandshakeRequest(cliLog[1].payload).msg.token = <<>>
    /\ Len(DecodeHandshakeRequest(cliLog[1].payload).msg.pkey) > KeyLen
    /\ Len(DecodeHandshakeResponse(srvLog[1].payload).msg.pkey) > KeyLen

\* the wire values the spec lists for KeyKind
SpecKeyKindValues ==
    {<<"UNKNOWN", 0>>, <<"BACKSPACE", 1>>, <<"ENTER", 2>>, <<"LEFT", 3>>,
     <<"RIGHT", 4>>, <<"UP", 5>>, <<"DOWN", 6>>, <<"HOME", 7>>, <<"END", 8>>,
     <<"PAGEUP", 9>>, <<"PAGEDOWN", 10>>, <<"TAB", 11>>, <<"DELETE", 13>>,
     <<"INSERT", 14>>, <<"FUNCTION", 15>>, <<"CHAR", 16>>, <<"ESC", 17>>,
     <<"SHIFT", 18>>, <<"META", 19>>}

\* C27: the KeyKind wire mapping: a wire value the spec lists for a kind
\* is read as that kind (13 as DELETE), every other value (12, negative
\* values, values above 19) is read as UNKNOWN; the 19 kinds have exactly
\* the listed values, and an event written as a KeyEvent packet and read
\* back is the same event.
C27_KeyKindWire ==
    /\ Cardinality(SpecKeyKindValues) = 19
    /\ KeyKindNames = {kv[1] : kv \in SpecKeyKindValues}
    /\ \A kv \in SpecKeyKindValues : KeyKindValue(kv[1]) = kv[2]
    /\ kcPc # "off" /\ kcPc # "wire"
          => /\ \A kv \in SpecKeyKindValues :
                    kcWire = kv[2] => kcEvent.kind = kv[1]
             /\ (\A kv \in SpecKeyKindValues : kcWire # kv[2])
                    => kcEvent.kind = "UNKNOWN"
             /\ kcEvent.key = kcKey
    /\ kcPc = "sent"
          => /\ kcOut.back.ok
             /\ kcOut.back.msg = kcEvent
             /\ kcOut.pkt.kind = "KeyEvent"
             /\ kcEvent.kind # "UNKNOWN"
                   => SubSeq(kcOut.pkt.payload, 2, 3)
                         = <<8, KeyKindValue(kcEvent.kind)>>

\* C27 witness: wire value 13 was read as DELETE, written and read back
C27_Witness ==
    /\ kcPc = "sent"
    /\ kcWire = 13
    /\ kcEvent.kind = "DELETE"
    /\ kcKey = 97
    /\ kcOut.back.msg = [kind |-> "DELETE", key |-> 97, modifiers |-> 0]

\* C28: remote is Some only after a complete handshake step: on the server
\* only when the request it received decodes and was verified (its token is
\* the secret in plain mode, its pkey opens under the secret to 32 bytes in
\* secure mode) and the HandshakeResponse was written; on the client only
\* when the response it received decodes; remote is the peer the message
\* names.  A side that is in its steady-state loop has remote Some.
C28_RemoteAfterHandshake ==
    /\ srvRemote.some
          => /\ Len(srvRecvd) >= 1
             /\ LET d == DecodeHandshakeRequest(srvRecvd[1].payload)
                     key == Open(skey, d.msg.pkey)
                 IN  /\ d.ok
                     /\ ~srvConfig.secure => d.msg.token = skey
                     /\ srvConfig.secure => key.ok /\ Len(key.pt) = KeyLen
                     /\ srvRemote = SomeRemote(d.msg.hostname, d.msg.version, "Client")
             /\ Len(srvLog) >= 1
             /\ IsHandshakeEntry(srvLog[1])
             /\ DecodeHandshakeResponse(srvLog[1].payload).ok
    /\ cliRemote.some
          => /\ Len(cliLog) >= 1
             /\ Len(cliRecvd) >= 1
             /\ LET d == DecodeHandshakeResponse(cliRecvd[1].payload)
                 IN  /\ d.ok
                     /\ cliRemote = SomeRemote(d.msg.hostname, d.msg.version, "Server")
    /\ srvPc \in SteadyPcs => srvRemote.some
    /\ cliPc = "listen" => cliRemote.some

\* C28 witness: a secure session in which both sides are in their loops
C28_Witness ==
    /\ srvConfig.secure
    /\ srvPc = "loop"
    /\ cliPc = "listen"
    /\ srvRemote = SomeRemote(<<99>>, VERSION_NUM, "Client")
    /\ cliRemote = SomeRemote(<<115>>, VERSION_NUM, "Server")
    /\ srvTr.kind = "kex"

\* C29: measure_latency ends in a value or a returned error for every
\* packet the peer can send: after a Ping reply whose body is not 8 bytes
\* the session is over through the error path (serve is back at accept, or
\* going on), and the server process has not aborted on it.
C29_ShortPingReturnsError ==
    (Len(srvRecvd) >= 2 /\ IsPingEntry(Last(srvRecvd))
        /\ Len(Last(srvRecvd).payload) # PingBodyLen)
        => /\ srvPc # "aborted"
           /\ srvErr # PingBodyPanic

\* C30: handling a received KeyEvent packet never aborts the receiving
\* process: after a KeyEvent packet whose body decodes, whatever its kind and
\* key, in cold_run and in injection mode, the listener is in its loop or
\* has returned, not aborted by the conversion of the event.
C30_KeyEventNeverAborts ==
    (cliRecvd # <<>> /\ IsDecodedKeyEvent(Last(cliRecvd)))
        => ~(cliPc = "aborted" /\ cliErr = CharPanic)

====
